---- MODULE Spec2Model ----
(***************************************************************************)
(* ADSLightSyncer: the TCP light synchronisation actor.                    *)
(*                                                                         *)
(* Threads: the listener thread (HandleConnectionAccepted), one background *)
(* task per accepted connection (the AsyncTask lambda), and the game       *)
(* ("scene") thread, which runs Tick, StartTcpListener, StopTcpListener,   *)
(* LoadAndSpawnLights, ClearExistingLights and EndPlay.                    *)
(*                                                                         *)
(* A connection is named by the order in which it was accepted: connection *)
(* 1 is the first HandleConnectionAccepted call, connection 2 the second.  *)
(* A light actor is named by where it came from: src > 0 is the connection *)
(* whose payload created it, src < 0 the legacy import that did, idx the   *)
(* position of its record in that batch or file.                           *)
(***************************************************************************)
EXTENDS Integers, Sequences, FiniteSets, TLC

\* Number of connections the listener accepts in a run.
MaxConns == 2
\* Number of Recv calls that deliver the whole of a sender's document.
MaxChunks == 2
\* Number of legacy file imports in a run.
MaxImports == 1

VARIABLES
    bIsListening,       \* ADSLightSyncer::bIsListening
    TcpListener,        \* ADSLightSyncer::TcpListener: "null" or "active"
    IncomingDataQueue,  \* TQueue<FString, Mpsc>: sequence of received texts
    SpawnedLights,      \* TArray<AActor*>: sequence of tracked light actors
    World,              \* light actors alive in the UWorld
    conn,               \* per connection: the background task's position and locals
    scenePc,            \* game thread: "idle" or "draining" (inside ProcessQueuedData)
    ended,              \* EndPlay has run
    imports,            \* number of LoadAndSpawnLights calls so far
    enqLog,             \* history: connections in the order their text was enqueued
    procLog,            \* history: payloads in the order ProcessReceivedLightData took them
    tickStart,          \* history: connections queued when the current Tick began
    bindFailed,         \* log: the last StartTcpListener call logged "Failed to start TCP listener"
    LightIntensity,     \* ULightComponent::Intensity of each light actor alive in the UWorld
    Other,              \* a second ADSLightSyncer in the same UWorld: its own members
    ParsedLine,         \* history: the last line given to ParseLightLine, and what it returned
    Manager             \* the ADSRuntimeManager of the level: its members, and its last call

vars == <<bIsListening, TcpListener, IncomingDataQueue, SpawnedLights, World,
          conn, scenePc, ended, imports, enqLog, procLog, tickStart, bindFailed,
          LightIntensity, Other, ParsedLine, Manager>>

Conns == 1..MaxConns

(***************************************************************************)
(* ADSRuntimeManager, a second actor class of the project.  Manager holds  *)
(* its members: the two weak references ("null" when IsValid() is false),  *)
(* the DirectLink source index, whether BeginPlay and EndPlay have run;    *)
(* Sources is the number of sources the DirectLink proxy lists.  The other *)
(* fields are history: the ADatasmithRuntimeActor spawned so far, and of   *)
(* the last member function called its name, its return value, and the     *)
(* index it gave OpenConnectionWithIndex (-1 when it opened nothing) with  *)
(* the source count it had read.                                           *)
(***************************************************************************)
MaxSources == 2
MaxSourceIndex == 3
MaxSpawns == 2

NoOpen == 0 - 1

ManagerWith(Index) ==
    [began |-> FALSE, ended |-> FALSE,
     DatasmithRuntimeActorRef |-> "null", DirectLinkProxyRef |-> "null",
     DirectLinkSourceIndex |-> Index, Sources |-> 0,
     Spawned |-> 0, call |-> "none", result |-> FALSE,
     OpenIndex |-> NoOpen, OpenCount |-> 0]

\* int32 DirectLinkSourceIndex = 0
NoManager == ManagerWith(0)

(***************************************************************************)
(* JSON documents a sender may write.  An element of "lights" is a JSON    *)
(* object, which has a "type" and an "intensity" field or lacks them, or   *)
(* some other JSON value (isObject FALSE).  A document has the top-level   *)
(* fields "event", "lightCount" and "lights", or lacks them.               *)
(***************************************************************************)
LightObj(hasT, t, hasI, i) ==
    [isObject |-> TRUE, hasType |-> hasT, type |-> t,
     hasIntensity |-> hasI, intensity |-> i]
Obj(t) == LightObj(TRUE, t, TRUE, 2)
NonObj == [isObject |-> FALSE, hasType |-> FALSE, type |-> "",
           hasIntensity |-> FALSE, intensity |-> 0]

DocValid == [name |-> "valid", wellFormed |-> TRUE, hasEvent |-> TRUE, event |-> "add",
             hasLightCount |-> TRUE, lightCount |-> 2, hasLights |-> TRUE,
             lights |-> <<Obj("Point"), Obj("Spot")>>]
DocAmbient == [name |-> "ambient", wellFormed |-> TRUE, hasEvent |-> TRUE, event |-> "delete",
               hasLightCount |-> TRUE, lightCount |-> 2, hasLights |-> TRUE,
               lights |-> <<Obj("Ambient"), Obj("Directional")>>]
DocMismatch == [name |-> "mismatch", wellFormed |-> TRUE, hasEvent |-> TRUE, event |-> "add",
                hasLightCount |-> TRUE, lightCount |-> 3, hasLights |-> TRUE,
                lights |-> <<Obj("Point"), Obj("Directional"), NonObj>>]
DocMalformed == [name |-> "malformed", wellFormed |-> FALSE, hasEvent |-> FALSE, event |-> "",
                 hasLightCount |-> FALSE, lightCount |-> 0, hasLights |-> FALSE,
                 lights |-> <<>>]

\* What a proper prefix of any document is: text that is not a JSON document.
DocTruncated == [name |-> "truncated", wellFormed |-> FALSE, hasEvent |-> FALSE, event |-> "",
                 hasLightCount |-> FALSE, lightCount |-> 0, hasLights |-> FALSE,
                 lights |-> <<>>]

Docs == {DocValid, DocAmbient, DocMismatch, DocMalformed}

\* The three light classes SpawnLightsFromJsonData and LoadAndSpawnLights spawn.
KnownTypes == {"Point", "Directional", "Spot"}

(***************************************************************************)
(* ReceivedString: the text a connection task has gathered when its read   *)
(* loop ends, the first n chunks of the document d its sender wrote: all   *)
(* of d, or a proper prefix of it.  A queue entry is that text, tagged     *)
(* with the connection it came from.                                       *)
(***************************************************************************)
ReceivedString(d, n) == IF n >= MaxChunks THEN d ELSE DocTruncated

Text(c, str) == [conn |-> c, doc |-> str]

\* FJsonSerializer::Deserialize succeeds on well-formed JSON only.
Deserialize(text) == text.doc.wellFormed

\* FJsonObject::GetStringField, GetIntegerField and GetNumberField as the
\* decoder uses them: the value of the field, and the empty string or zero
\* when the object has no such field.
GetStringField(has, value) == IF has THEN value ELSE ""
GetIntegerField(has, value) == IF has THEN value ELSE 0
GetNumberField(has, value) == IF has THEN value ELSE 0

\* A ParseJsonLight that marks a light of unknown type invalid.
ParseJsonLightRejectsUnknown(LightObject) ==
    [bIsValid |-> LightObject.isObject /\ LightObject.type \in KnownTypes,
     LightType |-> GetStringField(LightObject.hasType, LightObject.type),
     Intensity |-> GetNumberField(LightObject.hasIntensity, LightObject.intensity)]

\* ParseJsonLight: every valid JSON object yields a valid FLightData, whatever
\* its fields hold (missing fields read as defaults).
ParseJsonLight(LightObject) ==
    [bIsValid |-> LightObject.isObject,
     LightType |-> GetStringField(LightObject.hasType, LightObject.type),
     Intensity |-> GetNumberField(LightObject.hasIntensity, LightObject.intensity)]

RECURSIVE ParseLights(_)
ParseLights(arr) ==
    IF arr = <<>> THEN <<>>
    ELSE LET LightData == ParseJsonLight(Head(arr))
         IN  IF Head(arr).isObject /\ LightData.bIsValid
             THEN <<LightData>> \o ParseLights(Tail(arr))
             ELSE ParseLights(Tail(arr))

\* The FRhinoLightData ParseJsonLightData returns, with the line it logs:
\* "Failed to parse JSON data", "Light count mismatch" or "Successfully parsed".
RhinoLightData(valid, log, event, count, lights) ==
    [bIsValid |-> valid, log |-> log, EventType |-> event,
     LightCount |-> count, Lights |-> lights]

\* ParseJsonLightData without the count validation.
ParseJsonLightDataNoCount(text) ==
    IF ~Deserialize(text)
    THEN RhinoLightData(FALSE, "parseError", "", 0, <<>>)
    ELSE LET Lights == IF text.doc.hasLights THEN ParseLights(text.doc.lights) ELSE <<>>
         IN  RhinoLightData(TRUE, "parsed",
                            GetStringField(text.doc.hasEvent, text.doc.event),
                            GetIntegerField(text.doc.hasLightCount, text.doc.lightCount),
                            Lights)

ParseJsonLightData(text) ==
    IF ~Deserialize(text)
    THEN RhinoLightData(FALSE, "parseError", "", 0, <<>>)
    ELSE LET Lights == IF text.doc.hasLights THEN ParseLights(text.doc.lights) ELSE <<>>
             LightCount == GetIntegerField(text.doc.hasLightCount, text.doc.lightCount)
             valid == (Len(Lights) = LightCount)
         IN  RhinoLightData(valid, IF valid THEN "parsed" ELSE "countMismatch",
                            GetStringField(text.doc.hasEvent, text.doc.event),
                            LightCount, Lights)

\* A light actor in the world.
Actor(src, idx, type) == [src |-> src, idx |-> idx, LightType |-> type]

Range(s) == {s[i] : i \in DOMAIN s}

\* The spawn loop shared by both ingestion paths: record i of `types` gives an
\* actor when its type is one of the three classes and SpawnActor did not
\* return null (i \notin refused); the actors are added in record order.
\* A spawn loop that leaves the loop at the first SpawnActor that returns null.
RECURSIVE SpawnLoopStopsAtRefusal(_, _, _, _)
SpawnLoopStopsAtRefusal(types, src, refused, i) ==
    IF i > Len(types) THEN <<>>
    ELSE IF types[i] \in KnownTypes /\ i \in refused THEN <<>>
    ELSE IF types[i] \in KnownTypes
         THEN <<Actor(src, i, types[i])>>
                 \o SpawnLoopStopsAtRefusal(types, src, refused, i + 1)
         ELSE SpawnLoopStopsAtRefusal(types, src, refused, i + 1)

RECURSIVE SpawnLoop(_, _, _, _)
SpawnLoop(types, src, refused, i) ==
    IF i > Len(types) THEN <<>>
    ELSE IF types[i] \in KnownTypes /\ i \notin refused
         THEN <<Actor(src, i, types[i])>> \o SpawnLoop(types, src, refused, i + 1)
         ELSE SpawnLoop(types, src, refused, i + 1)

\* Indices for which SpawnActor is called at all.
SpawnCalls(types) == {i \in DOMAIN types : types[i] \in KnownTypes}

TypesOf(Lights) == [i \in DOMAIN Lights |-> Lights[i].LightType]


(***************************************************************************)
(* The legacy text file: unreadable, or a sequence of lines.  A line is a  *)
(* comment or empty line (skip), or a record with ncomp space-separated    *)
(* components whose location component parses (locOk) or not, and whose    *)
(* fourth component reads as the number `intensity`.                       *)
(***************************************************************************)
LineWith(t, n, ok, i) ==
    [skip |-> FALSE, type |-> t, ncomp |-> n, locOk |-> ok, intensity |-> i]
Line(t, n, ok) == LineWith(t, n, ok, 3)
CommentLine == [skip |-> TRUE, type |-> "", ncomp |-> 0, locOk |-> FALSE,
                intensity |-> 0]

FileMissing == [loadable |-> FALSE, lines |-> <<>>]
FileMixed == [loadable |-> TRUE,
              lines |-> <<CommentLine, Line("Point", 5, TRUE),
                          Line("Spot", 4, TRUE), Line("Spot", 7, TRUE),
                          Line("Ambient", 5, TRUE)>>]
Files == {FileMissing, FileMixed}

\* ParseLightLine: fewer than 5 components, or a location that fails to
\* parse, gives bIsValid = false.
ParseLightLine(line) ==
    [bIsValid |-> (line.ncomp >= 5 /\ line.locOk), LightType |-> line.type,
     Intensity |-> line.intensity]

\* A LoadAndSpawnLights that gives up the file at the first line that fails
\* to parse.
LegacyTypesStopAtBadLine(file) ==
    [i \in DOMAIN file.lines |->
        IF \E j \in 1..i : /\ ~file.lines[j].skip
                            /\ ~ParseLightLine(file.lines[j]).bIsValid
        THEN ""
        ELSE IF file.lines[i].skip THEN ""
             ELSE ParseLightLine(file.lines[i]).LightType]

\* The type LoadAndSpawnLights spawns for each line of the file; "" for a
\* line it passes over (comment, empty, or failed parse).
LegacyTypes(file) ==
    [i \in DOMAIN file.lines |->
        IF file.lines[i].skip \/ ~ParseLightLine(file.lines[i]).bIsValid
        THEN ""
        ELSE ParseLightLine(file.lines[i]).LightType]

(***************************************************************************)
(* Scene state transformers: st is [SpawnedLights, World].                 *)
(***************************************************************************)
Scene == [SpawnedLights |-> SpawnedLights, World |-> World]

\* A ClearExistingLights that destroys the lights but keeps the array.
ClearExistingLightsKeepsTracking(st) ==
    [SpawnedLights |-> st.SpawnedLights,
     World |-> st.World \ Range(st.SpawnedLights)]

\* A ClearExistingLights that destroys every light actor of the world.
ClearExistingLightsOfWorld(st) == [SpawnedLights |-> <<>>, World |-> {}]

\* A ClearExistingLights that empties the array and destroys nothing.
ClearExistingLightsForgets(st) == [SpawnedLights |-> <<>>, World |-> st.World]

\* ClearExistingLights: destroys every tracked light that is still valid and
\* empties the array.
ClearExistingLightsOf(st) ==
    [SpawnedLights |-> <<>>, World |-> st.World \ Range(st.SpawnedLights)]

SpawnLightsNoClear(st, LightData, src, refused) ==
    LET new == SpawnLoop(TypesOf(LightData.Lights), src, refused, 1)
    IN  [SpawnedLights |-> st.SpawnedLights \o new,
         World |-> st.World \cup Range(new)]

\* A SpawnLightsFromJsonData that adds to the scene on an "add" event and
\* replaces it on any other.
SpawnLightsByEvent(st, LightData, src, refused) ==
    LET cleared == IF LightData.EventType = "add" THEN st
                   ELSE ClearExistingLightsOf(st)
        new == SpawnLoop(TypesOf(LightData.Lights), src, refused, 1)
    IN  [SpawnedLights |-> cleared.SpawnedLights \o new,
         World |-> cleared.World \cup Range(new)]

\* A SpawnLightsFromJsonData that returns at once on a batch without lights.
SpawnLightsSkipsEmptyBatch(st, LightData, src, refused) ==
    LET cleared == ClearExistingLightsOf(st)
        new == SpawnLoop(TypesOf(LightData.Lights), src, refused, 1)
    IN  IF LightData.Lights = <<>>
        THEN st
        ELSE [SpawnedLights |-> cleared.SpawnedLights \o new,
              World |-> cleared.World \cup Range(new)]

SpawnLightsFromJsonData(st, LightData, src, refused) ==
    LET cleared == ClearExistingLightsOf(st)
        new == SpawnLoop(TypesOf(LightData.Lights), src, refused, 1)
    IN  [SpawnedLights |-> cleared.SpawnedLights \o new,
         World |-> cleared.World \cup Range(new)]

ProcessReceivedLightDataNoReturn(st, text, refused) ==
    SpawnLightsFromJsonData(st, ParseJsonLightData(text), text.conn, refused)

ProcessReceivedLightData(st, text, refused) ==
    LET LightData == ParseJsonLightData(text)
    IN  IF ~LightData.bIsValid
        THEN st
        ELSE SpawnLightsFromJsonData(st, LightData, text.conn, refused)

\* A spawn loop that gives a spot light the factor of a directional light.
\* The factor both spawn loops give SetIntensity: Light.Intensity * 1000.0f
\* for a point or spot light, Light.Intensity * 10.0f for a directional one.
IntensityScaleSpotAsDirectional(LightType) ==
    IF LightType = "Point" THEN 1000 ELSE 10

IntensityScale(LightType) ==
    IF LightType = "Directional" THEN 10 ELSE 1000

\* The intensities in the world after a spawn loop has run over `Lights` and
\* left scene st: every light it tracked has the intensity SetIntensity gave
\* it, every other light alive keeps its own.
SetIntensity(intensity, st, Lights) ==
    [l \in st.World |->
        IF l \in Range(st.SpawnedLights) /\ l.idx \in DOMAIN Lights
        THEN Lights[l.idx].Intensity * IntensityScale(l.LightType)
        ELSE intensity[l]]

\* The intensities of the lights that are still alive in scene st.
Alive(intensity, st) == [l \in st.World |-> intensity[l]]

\* The intensities after ProcessReceivedLightData(text) has left scene st:
\* unchanged when the payload was rejected.
IntensityAfter(intensity, st, text) ==
    IF ParseJsonLightData(text).bIsValid
    THEN SetIntensity(intensity, st, ParseJsonLightData(text).Lights)
    ELSE intensity

\* The FLightData ParseLightLine gives for each line of the file.
LegacyLightData(file) ==
    [i \in DOMAIN file.lines |-> ParseLightLine(file.lines[i])]

\* A LoadAndSpawnLights that reads the file before it clears, and returns
\* without clearing when the file cannot be read.
LoadAndSpawnLightsReadsFirst(st, file, src, refused) ==
    LET cleared == ClearExistingLightsOf(st)
        new == SpawnLoop(LegacyTypes(file), src, refused, 1)
    IN  IF ~file.loadable
        THEN st
        ELSE [SpawnedLights |-> cleared.SpawnedLights \o new,
              World |-> cleared.World \cup Range(new)]

\* LoadAndSpawnLights on scene st: clear, then, when the file can be read, the
\* spawn loop over its lines.
LoadAndSpawnLightsOf(st, file, src, refused) ==
    LET cleared == ClearExistingLightsOf(st)
        new == SpawnLoop(LegacyTypes(file), src, refused, 1)
    IN  IF ~file.loadable
        THEN cleared
        ELSE [SpawnedLights |-> cleared.SpawnedLights \o new,
              World |-> cleared.World \cup Range(new)]

\* The SpawnActor calls the host may refuse while `file` is imported.
LegacyRefusalChoices(file) ==
    IF file.loadable THEN SUBSET SpawnCalls(LegacyTypes(file)) ELSE {{}}

\* The SpawnActor calls the host may refuse while `text` is applied.
RefusalChoices(text) ==
    LET LightData == ParseJsonLightData(text)
    IN  IF LightData.bIsValid
        THEN SUBSET SpawnCalls(TypesOf(LightData.Lights))
        ELSE {{}}

\* TQueue<FString, EQueueMode::Mpsc>
Enqueue(q, x) == Append(q, x)

DequeueNewest(q) == [item |-> q[Len(q)], rest |-> SubSeq(q, 1, Len(q) - 1)]

DequeueLowestConn(q) ==
    LET i == CHOOSE k \in DOMAIN q : \A j \in DOMAIN q : q[k].conn <= q[j].conn
    IN  [item |-> q[i],
         rest |-> SubSeq(q, 1, i - 1) \o SubSeq(q, i + 1, Len(q))]

Dequeue(q) == [item |-> Head(q), rest |-> Tail(q)]

QueuedConns == {IncomingDataQueue[i].conn : i \in DOMAIN IncomingDataQueue}

(***************************************************************************)
(* Initial state: the actor as constructed, before BeginPlay returns.      *)
(***************************************************************************)
NoConn == [pc |-> "none", ReceivedData |-> 0, socket |-> "none"]

\* The members of a second syncer as constructed, and no line parsed yet.
NoOther == [SpawnedLights |-> <<>>, IncomingDataQueue |-> <<>>, bIsListening |-> FALSE]
NoLine ==
    [Line |-> <<>>, Components |-> <<>>, SplitAt |-> {}, bIsValid |-> FALSE,
     log |-> "none"]

Init ==
    /\ bIsListening = FALSE
    /\ TcpListener = "null"
    /\ IncomingDataQueue = <<>>
    /\ SpawnedLights = <<>>
    /\ World = {}
    /\ conn = [c \in Conns |-> NoConn]
    /\ scenePc = "idle"
    /\ ended = FALSE
    /\ imports = 0
    /\ enqLog = <<>>
    /\ procLog = <<>>
    /\ tickStart = {}
    /\ bindFailed = FALSE
    /\ LightIntensity = [l \in {} |-> 0]
    /\ Other = NoOther
    /\ Manager = NoManager
    /\ ParsedLine = NoLine

(***************************************************************************)
(* Game thread.                                                            *)
(***************************************************************************)
SceneIdle == scenePc = "idle" /\ ~ended

\* A StartTcpListener without the "already running" test.
StartTcpListenerNoGuard ==
    /\ SceneIdle
    /\ \E outcome \in {"noSubsystem", "bindFails", "active"} :
          IF outcome = "noSubsystem"
          THEN UNCHANGED <<bIsListening, TcpListener>> /\ bindFailed' = FALSE
          ELSE IF outcome = "active"
               THEN bIsListening' = TRUE /\ TcpListener' = "active"
                    /\ bindFailed' = FALSE
               ELSE UNCHANGED bIsListening /\ TcpListener' = "null"
                    /\ bindFailed' = TRUE
    /\ UNCHANGED <<IncomingDataQueue, SpawnedLights, World, conn, scenePc, ended,
                   imports, enqLog, procLog, tickStart>>
    /\ UNCHANGED <<LightIntensity, Other, ParsedLine, Manager>>

\* A StartTcpListener that keeps the FTcpListener object when it is not active.
StartTcpListenerKeepsListener ==
    /\ SceneIdle
    /\ \E outcome \in {"noSubsystem", "bindFails", "active"} :
          IF bIsListening
          THEN UNCHANGED <<bIsListening, TcpListener, bindFailed>>
          ELSE IF outcome = "noSubsystem"
               THEN UNCHANGED <<bIsListening, TcpListener>> /\ bindFailed' = FALSE
               ELSE IF outcome = "active"
                    THEN bIsListening' = TRUE /\ TcpListener' = "active"
                         /\ bindFailed' = FALSE
                    ELSE UNCHANGED bIsListening /\ TcpListener' = "active"
                         /\ bindFailed' = TRUE
    /\ UNCHANGED <<IncomingDataQueue, SpawnedLights, World, conn, scenePc, ended,
                   imports, enqLog, procLog, tickStart>>
    /\ UNCHANGED <<LightIntensity, Other, ParsedLine, Manager>>

\* StartTcpListener: returns at once when already listening or when there is
\* no socket subsystem; otherwise constructs the FTcpListener, which is active
\* when its socket could be bound, and is dropped again when it is not.
StartTcpListener ==
    /\ SceneIdle
    /\ \E outcome \in {"noSubsystem", "bindFails", "active"} :
          IF bIsListening
          THEN UNCHANGED <<bIsListening, TcpListener, bindFailed>>
          ELSE IF outcome = "noSubsystem"
               THEN UNCHANGED <<bIsListening, TcpListener>> /\ bindFailed' = FALSE
               ELSE IF outcome = "active"
                    THEN bIsListening' = TRUE /\ TcpListener' = "active"
                         /\ bindFailed' = FALSE
                    ELSE UNCHANGED bIsListening /\ TcpListener' = "null"
                         /\ bindFailed' = TRUE
    /\ UNCHANGED <<IncomingDataQueue, SpawnedLights, World, conn, scenePc, ended,
                   imports, enqLog, procLog, tickStart>>
    /\ UNCHANGED <<LightIntensity, Other, ParsedLine, Manager>>

\* A StopTcpListener that joins the connection tasks before it returns.
StopTcpListenerJoinsTasks ==
    /\ SceneIdle
    /\ \A c \in Conns : conn[c].pc \in {"none", "done"}
    /\ IF ~bIsListening
       THEN UNCHANGED <<bIsListening, TcpListener>>
       ELSE bIsListening' = FALSE /\ TcpListener' = "null"
    /\ UNCHANGED <<IncomingDataQueue, SpawnedLights, World, conn, scenePc, ended,
                   imports, enqLog, procLog, tickStart, bindFailed>>
    /\ UNCHANGED <<LightIntensity, Other, ParsedLine, Manager>>

StopTcpListener ==
    /\ SceneIdle
    /\ IF ~bIsListening
       THEN UNCHANGED <<bIsListening, TcpListener>>
       ELSE bIsListening' = FALSE /\ TcpListener' = "null"
    /\ UNCHANGED <<IncomingDataQueue, SpawnedLights, World, conn, scenePc, ended,
                   imports, enqLog, procLog, tickStart, bindFailed>>
    /\ UNCHANGED <<LightIntensity, Other, ParsedLine, Manager>>

ClearExistingLights ==
    /\ SceneIdle
    /\ SpawnedLights' = ClearExistingLightsOf(Scene).SpawnedLights
    /\ World' = ClearExistingLightsOf(Scene).World
    /\ LightIntensity' = Alive(LightIntensity, ClearExistingLightsOf(Scene))
    /\ UNCHANGED <<bIsListening, TcpListener, bindFailed, IncomingDataQueue, conn, scenePc,
                   ended, imports, enqLog, procLog, tickStart>>
    /\ UNCHANGED <<Other, ParsedLine, Manager>>

LoadAndSpawnLightsFrom(FileSet) ==
    /\ SceneIdle
    /\ imports < MaxImports
    /\ imports' = imports + 1
    /\ \E file \in FileSet :
          \E refused \in LegacyRefusalChoices(file) :
             LET st == LoadAndSpawnLightsOf(Scene, file, 0 - (imports + 1), refused)
             IN  /\ SpawnedLights' = st.SpawnedLights
                 /\ World' = st.World
                 /\ LightIntensity' =
                       SetIntensity(LightIntensity, st, LegacyLightData(file))
    /\ UNCHANGED <<bIsListening, TcpListener, bindFailed, IncomingDataQueue, conn, scenePc,
                   ended, enqLog, procLog, tickStart>>
    /\ UNCHANGED <<Other, ParsedLine, Manager>>

\* LoadAndSpawnLights on the file at LightFilePath.
LoadAndSpawnLights == LoadAndSpawnLightsFrom(Files)

EndPlay ==
    /\ SceneIdle
    /\ bIsListening' = FALSE
    /\ TcpListener' = "null"
    /\ SpawnedLights' = ClearExistingLightsOf(Scene).SpawnedLights
    /\ World' = ClearExistingLightsOf(Scene).World
    /\ LightIntensity' = Alive(LightIntensity, ClearExistingLightsOf(Scene))
    /\ ended' = TRUE
    /\ UNCHANGED <<IncomingDataQueue, conn, scenePc, imports, enqLog, procLog,
                   tickStart, bindFailed>>
    /\ UNCHANGED <<Other, ParsedLine, Manager>>

\* A Tick that only calls Super::Tick.
TickNoProcess ==
    /\ SceneIdle
    /\ tickStart' = {}
    /\ UNCHANGED <<bIsListening, TcpListener, bindFailed, IncomingDataQueue, SpawnedLights,
                   World, conn, scenePc, ended, imports, enqLog, procLog>>
    /\ UNCHANGED <<LightIntensity, Other, ParsedLine, Manager>>

\* A Tick that polls the queue only while the listener runs.
TickOnlyWhileListening ==
    /\ SceneIdle
    /\ bIsListening
    /\ scenePc' = "draining"
    /\ tickStart' = QueuedConns
    /\ UNCHANGED <<bIsListening, TcpListener, bindFailed, IncomingDataQueue, SpawnedLights,
                   World, conn, ended, imports, enqLog, procLog>>
    /\ UNCHANGED <<LightIntensity, Other, ParsedLine, Manager>>

\* Tick: enters ProcessQueuedData.
Tick ==
    /\ SceneIdle
    /\ scenePc' = "draining"
    /\ tickStart' = QueuedConns
    /\ UNCHANGED <<bIsListening, TcpListener, bindFailed, IncomingDataQueue, SpawnedLights,
                   World, conn, ended, imports, enqLog, procLog>>
    /\ UNCHANGED <<LightIntensity, Other, ParsedLine, Manager>>

\* Where ProcessQueuedData goes after ProcessReceivedLightData returns.
AfterOnePayloadReturn == "idle"

AfterOnePayload == "draining"

\* One iteration of `while (IncomingDataQueue.Dequeue(JsonData))` that got a
\* payload: ProcessReceivedLightData(JsonData), then the loop test again.
ProcessQueuedDataDequeue ==
    /\ scenePc = "draining"
    /\ IncomingDataQueue # <<>>
    /\ LET d == Dequeue(IncomingDataQueue)
       IN  /\ IncomingDataQueue' = d.rest
           /\ \E refused \in RefusalChoices(d.item) :
                 LET st == ProcessReceivedLightData(Scene, d.item, refused)
                 IN  /\ SpawnedLights' = st.SpawnedLights
                     /\ World' = st.World
                     /\ LightIntensity' =
                           IntensityAfter(LightIntensity, st, d.item)
                     /\ procLog' = Append(procLog,
                            [conn |-> d.item.conn,
                             log |-> ParseJsonLightData(d.item).log])
    /\ scenePc' = AfterOnePayload
    /\ tickStart' = IF AfterOnePayload = "idle" THEN {} ELSE tickStart
    /\ UNCHANGED <<bIsListening, TcpListener, bindFailed, conn, ended, imports, enqLog>>
    /\ UNCHANGED <<Other, ParsedLine, Manager>>

\* Dequeue returned false: ProcessQueuedData and Tick return.
ProcessQueuedDataReturn ==
    /\ scenePc = "draining"
    /\ IncomingDataQueue = <<>>
    /\ scenePc' = "idle"
    /\ tickStart' = {}
    /\ UNCHANGED <<bIsListening, TcpListener, bindFailed, IncomingDataQueue, SpawnedLights,
                   World, conn, ended, imports, enqLog, procLog>>
    /\ UNCHANGED <<LightIntensity, Other, ParsedLine, Manager>>

(***************************************************************************)
(* Listener thread and connection tasks.                                   *)
(***************************************************************************)
\* A handler that leaves the Listening state while a connection is handled.
HandleConnectionAcceptedConnected ==
    /\ TcpListener = "active"
    /\ \E c \in Conns :
          /\ conn[c].pc = "none"
          /\ \A b \in Conns : b < c => conn[b].pc # "none"
          /\ conn' = [conn EXCEPT ![c] = [pc |-> "reading", ReceivedData |-> 0,
                                          socket |-> "open"]]
    /\ bIsListening' = FALSE
    /\ UNCHANGED <<TcpListener, bindFailed, IncomingDataQueue, SpawnedLights,
                   World, scenePc, ended, imports, enqLog, procLog, tickStart>>
    /\ UNCHANGED <<LightIntensity, Other, ParsedLine, Manager>>

\* A handler that runs the read loop itself: it is not called again before
\* the read loop of the connection before has ended.
HandleConnectionAcceptedReadsInline ==
    /\ TcpListener = "active"
    /\ \A b \in Conns : conn[b].pc # "reading"
    /\ \E c \in Conns :
          /\ conn[c].pc = "none"
          /\ \A b \in Conns : b < c => conn[b].pc # "none"
          /\ conn' = [conn EXCEPT ![c] = [pc |-> "reading", ReceivedData |-> 0,
                                          socket |-> "open"]]
    /\ UNCHANGED <<bIsListening, TcpListener, bindFailed, IncomingDataQueue, SpawnedLights,
                   World, scenePc, ended, imports, enqLog, procLog, tickStart>>
    /\ UNCHANGED <<LightIntensity, Other, ParsedLine, Manager>>

\* The listener thread calls the delegate for a newly accepted socket; the
\* handler spawns the task and returns true.
HandleConnectionAccepted ==
    /\ TcpListener = "active"
    /\ \E c \in Conns :
          /\ conn[c].pc = "none"
          /\ \A b \in Conns : b < c => conn[b].pc # "none"
          /\ conn' = [conn EXCEPT ![c] = [pc |-> "reading", ReceivedData |-> 0,
                                          socket |-> "open"]]
    /\ UNCHANGED <<bIsListening, TcpListener, bindFailed, IncomingDataQueue, SpawnedLights,
                   World, scenePc, ended, imports, enqLog, procLog, tickStart>>
    /\ UNCHANGED <<LightIntensity, Other, ParsedLine, Manager>>

\* Recv returned true with BytesRead > 0: append to ReceivedData.
TaskRecv(c) ==
    /\ conn[c].pc = "reading"
    /\ conn[c].ReceivedData < MaxChunks
    /\ conn' = [conn EXCEPT ![c].ReceivedData = @ + 1]
    /\ UNCHANGED <<bIsListening, TcpListener, bindFailed, IncomingDataQueue, SpawnedLights,
                   World, scenePc, ended, imports, enqLog, procLog, tickStart>>
    /\ UNCHANGED <<LightIntensity, Other, ParsedLine, Manager>>

\* A read loop whose end stops the listener.
TaskRecvEndStopsListener(c) ==
    /\ conn[c].pc = "reading"
    /\ conn' = [conn EXCEPT ![c].pc = "closed", ![c].socket = "closed"]
    /\ bIsListening' = FALSE
    /\ TcpListener' = "null"
    /\ UNCHANGED <<bindFailed, IncomingDataQueue, SpawnedLights,
                   World, scenePc, ended, imports, enqLog, procLog, tickStart>>
    /\ UNCHANGED <<LightIntensity, Other, ParsedLine, Manager>>

\* A task that closes its socket only when it ends, after the enqueue.
TaskRecvEndLeavesOpen(c) ==
    /\ conn[c].pc = "reading"
    /\ conn' = [conn EXCEPT ![c].pc = "closed"]
    /\ UNCHANGED <<bIsListening, TcpListener, bindFailed, IncomingDataQueue, SpawnedLights,
                   World, scenePc, ended, imports, enqLog, procLog, tickStart>>
    /\ UNCHANGED <<LightIntensity, Other, ParsedLine, Manager>>

\* Recv returned false, or true with BytesRead = 0: the loop ends and the
\* socket is closed.
TaskRecvEnd(c) ==
    /\ conn[c].pc = "reading"
    /\ conn' = [conn EXCEPT ![c].pc = "closed", ![c].socket = "closed"]
    /\ UNCHANGED <<bIsListening, TcpListener, bindFailed, IncomingDataQueue, SpawnedLights,
                   World, scenePc, ended, imports, enqLog, procLog, tickStart>>
    /\ UNCHANGED <<LightIntensity, Other, ParsedLine, Manager>>

\* A task that decodes and applies its own payload instead of queueing it.
TaskEnqueueApplyInline(c) ==
    /\ conn[c].pc = "closed"
    /\ conn' = [conn EXCEPT ![c].pc = "done", ![c].ReceivedData = 0]
    /\ IF conn[c].ReceivedData > 0
       THEN \E d \in Docs :
               LET text == Text(c, ReceivedString(d, conn[c].ReceivedData))
                   st == ProcessReceivedLightData(Scene, text, {})
               IN  /\ SpawnedLights' = st.SpawnedLights
                   /\ World' = st.World
                   /\ LightIntensity' = IntensityAfter(LightIntensity, st, text)
       ELSE UNCHANGED <<SpawnedLights, World, LightIntensity>>
    /\ UNCHANGED <<bIsListening, TcpListener, bindFailed, IncomingDataQueue, scenePc, ended,
                   imports, enqLog, procLog, tickStart>>
    /\ UNCHANGED <<Other, ParsedLine, Manager>>

\* A task that enqueues its text without testing ReceivedData.Num().
TaskEnqueueAlways(c) ==
    /\ conn[c].pc = "closed"
    /\ conn' = [conn EXCEPT ![c].pc = "done", ![c].ReceivedData = 0]
    /\ \E d \in Docs :
          /\ IncomingDataQueue' =
                Enqueue(IncomingDataQueue,
                        Text(c, ReceivedString(d, conn[c].ReceivedData)))
          /\ enqLog' = Append(enqLog, c)
    /\ UNCHANGED <<bIsListening, TcpListener, bindFailed, SpawnedLights, World, scenePc,
                   ended, imports, procLog, tickStart>>
    /\ UNCHANGED <<LightIntensity, Other, ParsedLine, Manager>>

\* A task that goes on after its read loop only when no other task is in its
\* read loop.
TaskEnqueueWaitsForOthers(c) ==
    /\ conn[c].pc = "closed"
    /\ \A b \in Conns : conn[b].pc # "reading"
    /\ conn' = [conn EXCEPT ![c].pc = "done", ![c].ReceivedData = 0]
    /\ IF conn[c].ReceivedData > 0
       THEN \E d \in Docs :
               /\ IncomingDataQueue' =
                     Enqueue(IncomingDataQueue,
                             Text(c, ReceivedString(d, conn[c].ReceivedData)))
               /\ enqLog' = Append(enqLog, c)
       ELSE UNCHANGED <<IncomingDataQueue, enqLog>>
    /\ UNCHANGED <<bIsListening, TcpListener, bindFailed, SpawnedLights, World, scenePc,
                   ended, imports, procLog, tickStart>>
    /\ UNCHANGED <<LightIntensity, Other, ParsedLine, Manager>>

\* if (ReceivedData.Num() > 0) IncomingDataQueue.Enqueue(ReceivedString);
\* then the task ends and its local ReceivedData is gone.  d is the document
\* the sender wrote.
TaskEnqueue(c) ==
    /\ conn[c].pc = "closed"
    /\ conn' = [conn EXCEPT ![c].pc = "done", ![c].ReceivedData = 0]
    /\ IF conn[c].ReceivedData > 0
       THEN \E d \in Docs :
               /\ IncomingDataQueue' =
                     Enqueue(IncomingDataQueue,
                             Text(c, ReceivedString(d, conn[c].ReceivedData)))
               /\ enqLog' = Append(enqLog, c)
       ELSE UNCHANGED <<IncomingDataQueue, enqLog>>
    /\ UNCHANGED <<bIsListening, TcpListener, bindFailed, SpawnedLights, World, scenePc,
                   ended, imports, procLog, tickStart>>
    /\ UNCHANGED <<LightIntensity, Other, ParsedLine, Manager>>

Next ==
    \/ StartTcpListener
    \/ StopTcpListener
    \/ ClearExistingLights
    \/ LoadAndSpawnLights
    \/ EndPlay
    \/ Tick
    \/ ProcessQueuedDataDequeue
    \/ ProcessQueuedDataReturn
    \/ HandleConnectionAccepted
    \/ \E c \in Conns : TaskRecv(c)
    \/ \E c \in Conns : TaskRecvEnd(c)
    \/ \E c \in Conns : TaskEnqueue(c)

Spec == Init /\ [][Next]_vars

(***************************************************************************)
(* The copy of the class in Source/DatasmithTest/Actors/DSLightSyncer.cpp. *)
(* Its member functions are those above, but for EndPlay, which stops the  *)
(* listener and calls Super::EndPlay only.                                 *)
(***************************************************************************)
ActorsEndPlay ==
    /\ SceneIdle
    /\ bIsListening' = FALSE
    /\ TcpListener' = "null"
    /\ ended' = TRUE
    /\ UNCHANGED <<IncomingDataQueue, SpawnedLights, World, conn, scenePc, imports,
                   enqLog, procLog, tickStart, bindFailed>>
    /\ UNCHANGED <<LightIntensity, Other, ParsedLine, Manager>>

ActorsNext ==
    \/ StartTcpListener
    \/ StopTcpListener
    \/ ClearExistingLights
    \/ LoadAndSpawnLights
    \/ ActorsEndPlay
    \/ Tick
    \/ ProcessQueuedDataDequeue
    \/ ProcessQueuedDataReturn
    \/ HandleConnectionAccepted
    \/ \E c \in Conns : TaskRecv(c)
    \/ \E c \in Conns : TaskRecvEnd(c)
    \/ \E c \in Conns : TaskEnqueue(c)

ActorsSpec == Init /\ [][ActorsNext]_vars


(***************************************************************************)
(* The consumer alone, on payloads of any shape.  Two connections have     *)
(* delivered their payloads and ended: the first a document of Docs, the   *)
(* second any document of WireDocs; the game thread then ticks, imports    *)
(* legacy files and clears.                                                *)
(***************************************************************************)
\* Longest "lights" array of the documents of WireDocs.
MaxLights == 2

LightValues ==
    {NonObj, LightObj(FALSE, "", TRUE, 2), LightObj(TRUE, "Point", FALSE, 0)}
        \cup {LightObj(TRUE, t, TRUE, 2) : t \in KnownTypes \cup {"Ambient"}}

LightArrays == UNION {[1..n -> LightValues] : n \in 0..MaxLights}

WireDocs ==
    {DocMalformed} \cup
    {[name |-> "wire", wellFormed |-> TRUE,
      hasEvent |-> he, event |-> IF he THEN "add" ELSE "",
      hasLightCount |-> hc, lightCount |-> IF hc THEN n ELSE 0,
      hasLights |-> hl, lights |-> IF hl THEN arr ELSE <<>>] :
        he \in BOOLEAN, hc \in BOOLEAN, n \in 0..MaxLights,
        hl \in BOOLEAN, arr \in LightArrays}

FileSun == [loadable |-> TRUE,
            lines |-> <<LineWith("Directional", 5, TRUE, 4),
                        LineWith("Point", 6, TRUE, 1)>>]
\* A file that can be read and has no line that ParseLightLine accepts.
FileNoLineDecodes == [loadable |-> TRUE,
                      lines |-> <<CommentLine, Line("Spot", 4, TRUE),
                                  Line("Point", 5, FALSE)>>]
LegacyFiles == Files \cup {FileSun, FileNoLineDecodes}

DoneConn == [pc |-> "done", ReceivedData |-> 0, socket |-> "closed"]

DecodeInit ==
    /\ bIsListening = TRUE
    /\ TcpListener = "active"
    /\ \E d1 \in Docs : \E d2 \in WireDocs :
          IncomingDataQueue = <<Text(1, d1), Text(2, d2)>>
    /\ SpawnedLights = <<>>
    /\ World = {}
    /\ conn = [c \in Conns |-> IF c <= 2 THEN DoneConn ELSE NoConn]
    /\ scenePc = "idle"
    /\ ended = FALSE
    /\ imports = 0
    /\ enqLog = <<1, 2>>
    /\ procLog = <<>>
    /\ tickStart = {}
    /\ bindFailed = FALSE
    /\ LightIntensity = [l \in {} |-> 0]
    /\ Other = NoOther
    /\ Manager = NoManager
    /\ ParsedLine = NoLine

LoadAndSpawnLightsAny == LoadAndSpawnLightsFrom(LegacyFiles)

DecodeNext ==
    \/ Tick
    \/ ProcessQueuedDataDequeue
    \/ ProcessQueuedDataReturn
    \/ LoadAndSpawnLightsAny
    \/ ClearExistingLights

DecodeSpec == DecodeInit /\ [][DecodeNext]_vars

(***************************************************************************)
(* Two syncers in one world.  The second instance has members of its own   *)
(* (Other) and runs the same member functions on them, on the game thread; *)
(* the light actors of both live in the one world.  The first instance has *)
(* two payloads queued.                                                    *)
(***************************************************************************)
\* Longest queue of the second instance.
MaxOtherQueue == 1

\* What the actors of the second instance are named after.
OtherConn == MaxConns + 1
OtherImport == 0 - (MaxImports + 1)

OtherScene == [SpawnedLights |-> Other.SpawnedLights, World |-> World]

PairInit ==
    /\ bIsListening = TRUE
    /\ TcpListener = "active"
    /\ \E d \in Docs : IncomingDataQueue = <<Text(1, DocValid), Text(2, d)>>
    /\ SpawnedLights = <<>>
    /\ World = {}
    /\ conn = [c \in Conns |-> IF c <= 2 THEN DoneConn ELSE NoConn]
    /\ scenePc = "idle"
    /\ ended = FALSE
    /\ imports = 0
    /\ enqLog = <<1, 2>>
    /\ procLog = <<>>
    /\ tickStart = {}
    /\ bindFailed = FALSE
    /\ LightIntensity = [l \in {} |-> 0]
    /\ Other = NoOther
    /\ Manager = NoManager
    /\ ParsedLine = NoLine

OtherUnchanged ==
    UNCHANGED <<bIsListening, TcpListener, bindFailed, IncomingDataQueue, SpawnedLights,
                conn, scenePc, ended, imports, enqLog, procLog, tickStart, ParsedLine, Manager>>

OtherStartTcpListener ==
    /\ scenePc = "idle"
    /\ ~Other.bIsListening
    /\ Other' = [Other EXCEPT !.bIsListening = TRUE]
    /\ OtherUnchanged
    /\ UNCHANGED <<World, LightIntensity>>

OtherStopTcpListener ==
    /\ scenePc = "idle"
    /\ Other.bIsListening
    /\ Other' = [Other EXCEPT !.bIsListening = FALSE]
    /\ OtherUnchanged
    /\ UNCHANGED <<World, LightIntensity>>

\* A connection task of the second instance enqueues its text.
OtherEnqueue ==
    /\ Other.bIsListening
    /\ Len(Other.IncomingDataQueue) < MaxOtherQueue
    /\ \E d \in Docs :
          Other' = [Other EXCEPT !.IncomingDataQueue =
                                    Enqueue(@, Text(OtherConn, d))]
    /\ OtherUnchanged
    /\ UNCHANGED <<World, LightIntensity>>

\* The second instance's Tick: ProcessQueuedData on its own queue.
OtherProcessQueuedData ==
    /\ scenePc = "idle"
    /\ Other.IncomingDataQueue # <<>>
    /\ LET d == Dequeue(Other.IncomingDataQueue)
       IN  \E refused \in RefusalChoices(d.item) :
              LET st == ProcessReceivedLightData(OtherScene, d.item, refused)
              IN  /\ Other' = [Other EXCEPT !.IncomingDataQueue = d.rest,
                                            !.SpawnedLights = st.SpawnedLights]
                  /\ World' = st.World
                  /\ LightIntensity' = IntensityAfter(LightIntensity, st, d.item)
    /\ OtherUnchanged

OtherClearExistingLights ==
    /\ scenePc = "idle"
    /\ Other' = [Other EXCEPT !.SpawnedLights =
                                 ClearExistingLightsOf(OtherScene).SpawnedLights]
    /\ World' = ClearExistingLightsOf(OtherScene).World
    /\ LightIntensity' = Alive(LightIntensity, ClearExistingLightsOf(OtherScene))
    /\ OtherUnchanged

OtherLoadAndSpawnLights ==
    /\ scenePc = "idle"
    /\ \E file \in Files :
          \E refused \in LegacyRefusalChoices(file) :
             LET st == LoadAndSpawnLightsOf(OtherScene, file, OtherImport, refused)
             IN  /\ Other' = [Other EXCEPT !.SpawnedLights = st.SpawnedLights]
                 /\ World' = st.World
                 /\ LightIntensity' =
                       SetIntensity(LightIntensity, st, LegacyLightData(file))
    /\ OtherUnchanged

PairNext ==
    \/ Tick
    \/ ProcessQueuedDataDequeue
    \/ ProcessQueuedDataReturn
    \/ LoadAndSpawnLights
    \/ ClearExistingLights
    \/ OtherStartTcpListener
    \/ OtherStopTcpListener
    \/ OtherEnqueue
    \/ OtherProcessQueuedData
    \/ OtherClearExistingLights
    \/ OtherLoadAndSpawnLights

PairSpec == PairInit /\ [][PairNext]_vars

(***************************************************************************)
(* ParseLightLine on the text of a line.  A line is a sequence of          *)
(* characters: the space, the two parentheses, and "x" for any other       *)
(* character.  The loop keeps the components found so far, the component   *)
(* being gathered and the flag bInParentheses; SplitAt records the         *)
(* positions of the spaces at which it added a component.                  *)
(***************************************************************************)
\* Longest line given to ParseLightLine.
MaxLineLen == 9

Chars == {" ", "(", ")", "x"}
LinesOfText == UNION {[1..n -> Chars] : n \in 0..MaxLineLen}

\* FString::TrimStartAndEnd.
RECURSIVE TrimStart(_)
TrimStart(str) ==
    IF str # <<>> /\ Head(str) = " " THEN TrimStart(Tail(str)) ELSE str
RECURSIVE TrimEnd(_)
TrimEnd(str) ==
    IF str # <<>> /\ str[Len(str)] = " "
    THEN TrimEnd(SubSeq(str, 1, Len(str) - 1))
    ELSE str
TrimStartAndEnd(str) == TrimEnd(TrimStart(str))

ScanStart ==
    [Components |-> <<>>, CurrentComponent |-> <<>>, bInParentheses |-> FALSE,
     SplitAt |-> {}]

\* A loop that keeps the empty component between two spaces.
RECURSIVE ScanLineKeepsEmpty(_, _, _)
ScanLineKeepsEmpty(LineText, i, st) ==
    IF i > Len(LineText) THEN st
    ELSE LET Char == LineText[i]
         IN  IF Char = "("
             THEN ScanLineKeepsEmpty(LineText, i + 1,
                     [st EXCEPT !.bInParentheses = TRUE,
                                !.CurrentComponent = Append(@, Char)])
             ELSE IF Char = ")"
             THEN ScanLineKeepsEmpty(LineText, i + 1,
                     [st EXCEPT !.bInParentheses = FALSE,
                                !.CurrentComponent = Append(@, Char)])
             ELSE IF Char = " " /\ ~st.bInParentheses
             THEN ScanLineKeepsEmpty(LineText, i + 1,
                     [st EXCEPT !.Components =
                                   Append(@, TrimStartAndEnd(st.CurrentComponent)),
                                !.CurrentComponent = <<>>,
                                !.SplitAt = @ \cup {i}])
             ELSE ScanLineKeepsEmpty(LineText, i + 1,
                     [st EXCEPT !.CurrentComponent = Append(@, Char)])

\* for (int32 i = 0; i < LineText.Len(); i++) { ... }
RECURSIVE ScanLine(_, _, _)
ScanLine(LineText, i, st) ==
    IF i > Len(LineText) THEN st
    ELSE LET Char == LineText[i]
         IN  IF Char = "("
             THEN ScanLine(LineText, i + 1,
                     [st EXCEPT !.bInParentheses = TRUE,
                                !.CurrentComponent = Append(@, Char)])
             ELSE IF Char = ")"
             THEN ScanLine(LineText, i + 1,
                     [st EXCEPT !.bInParentheses = FALSE,
                                !.CurrentComponent = Append(@, Char)])
             ELSE IF Char = " " /\ ~st.bInParentheses
             THEN IF st.CurrentComponent # <<>>
                  THEN ScanLine(LineText, i + 1,
                          [st EXCEPT !.Components =
                                        Append(@, TrimStartAndEnd(st.CurrentComponent)),
                                     !.CurrentComponent = <<>>,
                                     !.SplitAt = @ \cup {i}])
                  ELSE ScanLine(LineText, i + 1, st)
             ELSE ScanLine(LineText, i + 1,
                     [st EXCEPT !.CurrentComponent = Append(@, Char)])

\* The loop, then "Add the last component".
ComponentsOf(LineText) ==
    LET st == ScanLine(LineText, 1, ScanStart)
    IN  [Components |->
            IF st.CurrentComponent # <<>>
            THEN Append(st.Components, TrimStartAndEnd(st.CurrentComponent))
            ELSE st.Components,
         SplitAt |-> st.SplitAt]

\* The fewest components of a record.
MinComponents == 5

EnoughComponents(Components) == Len(Components) >= MinComponents

\* ParseVectorString gives a vector other than zero only for three parts
\* separated by commas; a line of Chars has no comma, so its location
\* component is never "(0,0,0)" and never parses.
LocationParses(VectorStr) ==
    Cardinality({i \in DOMAIN VectorStr : VectorStr[i] = ","}) = 2

\* ParseLightLine on a line of text: what it returns, and what it logs.
ParseLightLineText(LineText) ==
    LET split == ComponentsOf(LineText)
        enough == EnoughComponents(split.Components)
        located == enough /\ LocationParses(split.Components[2])
    IN  [Line |-> LineText,
         Components |-> split.Components,
         SplitAt |-> split.SplitAt,
         bIsValid |-> located,
         log |-> IF ~enough THEN "notEnough"
                 ELSE IF ~located THEN "locationFailed" ELSE "parsed"]

LineInit ==
    /\ bIsListening = FALSE
    /\ TcpListener = "null"
    /\ IncomingDataQueue = <<>>
    /\ SpawnedLights = <<>>
    /\ World = {}
    /\ conn = [c \in Conns |-> NoConn]
    /\ scenePc = "idle"
    /\ ended = FALSE
    /\ imports = 0
    /\ enqLog = <<>>
    /\ procLog = <<>>
    /\ tickStart = {}
    /\ bindFailed = FALSE
    /\ LightIntensity = [l \in {} |-> 0]
    /\ Other = NoOther
    /\ Manager = NoManager
    /\ \E LineText \in LinesOfText : ParsedLine = [NoLine EXCEPT !.Line = LineText]

\* ParseLightLine(LineText) is called and returns.
ParseLightLineCall ==
    /\ ParsedLine.log = "none"
    /\ ParsedLine' = ParseLightLineText(ParsedLine.Line)
    /\ UNCHANGED <<bIsListening, TcpListener, bindFailed, IncomingDataQueue, SpawnedLights,
                   World, conn, scenePc, ended, imports, enqLog, procLog, tickStart,
                   LightIntensity, Other, Manager>>

LineNext == ParseLightLineCall

LineSpec == LineInit /\ [][LineNext]_vars

(***************************************************************************)
(* The location and rotation components of a legacy record.  A component   *)
(* is its text: an opening parenthesis or none, the pieces between the     *)
(* commas, a closing parenthesis or none.  ParsedLine holds the component  *)
(* given and what ParseLightLine made of it.                               *)
(***************************************************************************)
\* Most pieces between commas in a component.
MaxParts == 4

\* The texts a piece between two commas may have.
PartTexts == {"", "0", "0.0", "5", "90", "90°", "x"}

\* FCString::Atof: the number the text starts with, 0 when it starts with none.
Atof(str) ==
    CASE str = "5" -> 5
      [] str \in {"90", "90°"} -> 90
      [] OTHER -> 0

\* FString::Replace(TEXT("°"), TEXT("")) on one piece.
ReplaceDegree(str) == IF str = "90°" THEN "90" ELSE str

ComponentTexts ==
    {[open |-> o, parts |-> p, close |-> c] :
        o \in BOOLEAN, c \in BOOLEAN,
        p \in UNION {[1..n -> PartTexts] : n \in 0..MaxParts}}

\* The literal TEXT("(0,0,0)").
ZeroLocationText == [open |-> TRUE, parts |-> <<"0", "0", "0">>, close |-> TRUE]

ZeroVector == [X |-> 0, Y |-> 0, Z |-> 0]
ZeroRotator == [Pitch |-> 0, Yaw |-> 0, Roll |-> 0]

\* FString::ParseIntoArray(Parts, TEXT(",")) culls the empty pieces; the
\* parentheses were replaced by nothing before.
NonEmpty(str) == str # ""
ParseIntoArray(Component) == SelectSeq(Component.parts, NonEmpty)

ParseVectorString(VectorStr) ==
    LET VectorParts == ParseIntoArray(VectorStr)
    IN  IF Len(VectorParts) # 3
        THEN ZeroVector
        ELSE [X |-> Atof(VectorParts[1]), Y |-> Atof(VectorParts[2]),
              Z |-> Atof(VectorParts[3])]

\* FRotator(InPitch, InYaw, InRoll).
FRotator(InPitch, InYaw, InRoll) == [Pitch |-> InPitch, Yaw |-> InYaw, Roll |-> InRoll]

\* Roll = part 1, Pitch = part 0, Yaw = part 2 (counted from 0).
ParseRotationString(RotationStr) ==
    LET RotationParts ==
           ParseIntoArray([RotationStr EXCEPT
                              !.parts = [i \in DOMAIN @ |-> ReplaceDegree(@[i])]])
    IN  IF Len(RotationParts) # 3
        THEN ZeroRotator
        ELSE LET Roll == Atof(RotationParts[2])
                 Pitch == Atof(RotationParts[1])
                 Yaw == Atof(RotationParts[3])
             IN  FRotator(Pitch, Yaw, Roll)

\* A location test that rejects every zero vector.
LocationRejectedAnyZero(Component) == ParseVectorString(Component) = ZeroVector

\* if (Location == FVector::ZeroVector && Components[1] != TEXT("(0,0,0)"))
LocationRejected(Component) ==
    ParseVectorString(Component) = ZeroVector /\ Component # ZeroLocationText

\* ParseLightLine on a record of five components whose location or rotation
\* component is Component: what it returns, and what it logs.
ParseLightLineComponent(Role, Component) ==
    LET Location == ParseVectorString(Component)
    IN  IF Role = "location"
        THEN [Role |-> Role, Component |-> Component,
              bIsValid |-> ~LocationRejected(Component),
              Location |-> IF LocationRejected(Component) THEN ZeroVector
                           ELSE [X |-> Location.Y, Y |-> Location.X, Z |-> Location.Z],
              Rotation |-> ZeroRotator,
              log |-> IF LocationRejected(Component) THEN "locationFailed"
                      ELSE "parsed"]
        ELSE [Role |-> Role, Component |-> Component, bIsValid |-> TRUE,
              Location |-> ZeroVector,
              Rotation |-> ParseRotationString(Component),
              log |-> "parsed"]

NoComponent(Role, Component) ==
    [Role |-> Role, Component |-> Component, bIsValid |-> FALSE,
     Location |-> ZeroVector, Rotation |-> ZeroRotator, log |-> "none"]

ComponentInit ==
    /\ bIsListening = FALSE
    /\ TcpListener = "null"
    /\ IncomingDataQueue = <<>>
    /\ SpawnedLights = <<>>
    /\ World = {}
    /\ conn = [c \in Conns |-> NoConn]
    /\ scenePc = "idle"
    /\ ended = FALSE
    /\ imports = 0
    /\ enqLog = <<>>
    /\ procLog = <<>>
    /\ tickStart = {}
    /\ bindFailed = FALSE
    /\ LightIntensity = [l \in {} |-> 0]
    /\ Other = NoOther
    /\ Manager = NoManager
    /\ \E Role \in {"location", "rotation"} : \E Component \in ComponentTexts :
          ParsedLine = NoComponent(Role, Component)

\* ParseLightLine is called on the record and returns.
ParseLightLineComponentCall ==
    /\ ParsedLine.log = "none"
    /\ ParsedLine' = ParseLightLineComponent(ParsedLine.Role, ParsedLine.Component)
    /\ UNCHANGED <<bIsListening, TcpListener, bindFailed, IncomingDataQueue, SpawnedLights,
                   World, conn, scenePc, ended, imports, enqLog, procLog, tickStart,
                   LightIntensity, Other, Manager>>

ComponentNext == ParseLightLineComponentCall

ComponentSpec == ComponentInit /\ [][ComponentNext]_vars


(***************************************************************************)
(* The orientation of a light of the wire format, as ParseJsonLight reads  *)
(* it: LightObject is the light's JSON object reduced to its "rotation"    *)
(* and "direction" members, each present (with three numbers) or absent.   *)
(***************************************************************************)
Angles == {0, 45, 90}
Coords == {-1, 0, 1}

NoRotationObject == [has |-> FALSE, pitch |-> 0, yaw |-> 0, roll |-> 0]
NoDirectionObject == [has |-> FALSE, x |-> 0, y |-> 0, z |-> 0]

RotationObjects ==
    {NoRotationObject} \cup
    {[has |-> TRUE, pitch |-> p, yaw |-> y, roll |-> r] :
        p \in Angles, y \in Angles, r \in Angles}

DirectionObjects ==
    {NoDirectionObject} \cup
    {[has |-> TRUE, x |-> x, y |-> y, z |-> z] :
        x \in Coords, y \in Coords, z \in Coords}

OrientedLightObjects ==
    {[rotation |-> r, direction |-> d] :
        r \in RotationObjects, d \in DirectionObjects}

\* FLightData::Rotation starts as FRotator::ZeroRotator; only a "rotation"
\* object changes it, and no other member of the light is read for it.
ParseJsonLightRotation(LightObject) ==
    IF LightObject.rotation.has
    THEN LET Pitch == GetNumberField(TRUE, LightObject.rotation.pitch)
             Yaw == GetNumberField(TRUE, LightObject.rotation.yaw)
             Roll == GetNumberField(TRUE, LightObject.rotation.roll)
         IN  FRotator(Pitch, Yaw, Roll)
    ELSE ZeroRotator

NoOrientation(LightObject) ==
    [LightObject |-> LightObject, Rotation |-> ZeroRotator, log |-> "none"]

OrientationInit ==
    /\ bIsListening = FALSE
    /\ TcpListener = "null"
    /\ IncomingDataQueue = <<>>
    /\ SpawnedLights = <<>>
    /\ World = {}
    /\ conn = [c \in Conns |-> NoConn]
    /\ scenePc = "idle"
    /\ ended = FALSE
    /\ imports = 0
    /\ enqLog = <<>>
    /\ procLog = <<>>
    /\ tickStart = {}
    /\ bindFailed = FALSE
    /\ LightIntensity = [l \in {} |-> 0]
    /\ Other = NoOther
    /\ Manager = NoManager
    /\ \E LightObject \in OrientedLightObjects :
          ParsedLine = NoOrientation(LightObject)

\* ParseJsonLight is called on the light and returns.
ParseJsonLightRotationCall ==
    /\ ParsedLine.log = "none"
    /\ ParsedLine' = [ParsedLine EXCEPT
                        !.Rotation = ParseJsonLightRotation(ParsedLine.LightObject),
                        !.log = IF ParsedLine.LightObject.rotation.has
                                THEN "parsedRotation" ELSE "parsed"]
    /\ UNCHANGED <<bIsListening, TcpListener, bindFailed, IncomingDataQueue, SpawnedLights,
                   World, conn, scenePc, ended, imports, enqLog, procLog, tickStart,
                   LightIntensity, Other, Manager>>

OrientationNext == ParseJsonLightRotationCall

OrientationSpec == OrientationInit /\ [][OrientationNext]_vars

(***************************************************************************)
(* ADSRuntimeManager's member functions, as functions of the manager m and *)
(* of what the engine answers: whether the library hands out a proxy,      *)
(* whether GetWorld() is valid, whether SpawnActor and                     *)
(* OpenConnectionWithIndex succeed.                                        *)
(***************************************************************************)
Returned(m, name, value) ==
    [m EXCEPT !.call = name, !.result = value, !.OpenIndex = NoOpen, !.OpenCount = 0]

\* FMath::Clamp and FMath::Max
Clamp(X, Min, Max) == IF X < Min THEN Min ELSE IF X < Max THEN X ELSE Max
FMax(A, B) == IF A >= B THEN A ELSE B

GetAvailableSourceCount(m) ==
    IF m.DirectLinkProxyRef # "valid" THEN 0 - 1 ELSE m.Sources

RefreshDirectLinkProxy(m, NewProxyValid) ==
    IF ~NewProxyValid
    THEN Returned([m EXCEPT !.DirectLinkProxyRef = "null"], "RefreshDirectLinkProxy", FALSE)
    ELSE Returned([m EXCEPT !.DirectLinkProxyRef = "valid"], "RefreshDirectLinkProxy", TRUE)

\* An InitializeDatasmithActor without the "already exists" test.
InitializeDatasmithActorAlways(m, WorldValid, SpawnOk) ==
    IF ~WorldValid THEN Returned(m, "InitializeDatasmithActor", FALSE)
    ELSE IF ~SpawnOk THEN Returned(m, "InitializeDatasmithActor", FALSE)
    ELSE Returned([m EXCEPT !.DatasmithRuntimeActorRef = "valid",
                            !.Spawned = @ + 1],
                  "InitializeDatasmithActor", TRUE)

InitializeDatasmithActor(m, WorldValid, SpawnOk) ==
    IF ~WorldValid THEN Returned(m, "InitializeDatasmithActor", FALSE)
    ELSE IF m.DatasmithRuntimeActorRef = "valid"
    THEN Returned(m, "InitializeDatasmithActor", TRUE)
    ELSE IF ~SpawnOk THEN Returned(m, "InitializeDatasmithActor", FALSE)
    ELSE Returned([m EXCEPT !.DatasmithRuntimeActorRef = "valid",
                            !.Spawned = @ + 1],
                  "InitializeDatasmithActor", TRUE)

\* Whether InitializeDatasmithActor reaches its SpawnActor call.
CallsSpawnActor(m, WorldValid) ==
    WorldValid /\ m.DatasmithRuntimeActorRef # "valid"

SetDirectLinkSourceIndex(m, InSourceIndex) ==
    LET AvailableSourceCount == GetAvailableSourceCount(m)
    IN  Returned([m EXCEPT !.DirectLinkSourceIndex =
                      IF AvailableSourceCount > 0
                      THEN Clamp(InSourceIndex, 0, AvailableSourceCount - 1)
                      ELSE FMax(InSourceIndex, 0)],
                 "SetDirectLinkSourceIndex", TRUE)

\* An UpdateDirectLinkConnection that opens the connection with the index
\* as it stands.
UpdateDirectLinkConnectionNoReset(m, NewProxyValid, bConnectionSuccess) ==
    LET refreshed == IF m.DirectLinkProxyRef # "valid"
                     THEN RefreshDirectLinkProxy(m, NewProxyValid) ELSE m
        AvailableSourceCount == GetAvailableSourceCount(refreshed)
    IN  IF refreshed.DirectLinkProxyRef # "valid"
        THEN Returned(refreshed, "UpdateDirectLinkConnection", FALSE)
        ELSE IF refreshed.DatasmithRuntimeActorRef # "valid"
        THEN Returned(refreshed, "UpdateDirectLinkConnection", FALSE)
        ELSE IF AvailableSourceCount <= 0
        THEN Returned(refreshed, "UpdateDirectLinkConnection", FALSE)
        ELSE [refreshed EXCEPT !.call = "UpdateDirectLinkConnection",
                               !.result = bConnectionSuccess,
                               !.OpenIndex = refreshed.DirectLinkSourceIndex,
                               !.OpenCount = AvailableSourceCount]

UpdateDirectLinkConnection(m, NewProxyValid, bConnectionSuccess) ==
    LET refreshed == IF m.DirectLinkProxyRef # "valid"
                     THEN RefreshDirectLinkProxy(m, NewProxyValid) ELSE m
        AvailableSourceCount == GetAvailableSourceCount(refreshed)
        Index == IF refreshed.DirectLinkSourceIndex >= AvailableSourceCount
                 THEN 0 ELSE refreshed.DirectLinkSourceIndex
    IN  IF refreshed.DirectLinkProxyRef # "valid"
        THEN Returned(refreshed, "UpdateDirectLinkConnection", FALSE)
        ELSE IF refreshed.DatasmithRuntimeActorRef # "valid"
        THEN Returned(refreshed, "UpdateDirectLinkConnection", FALSE)
        ELSE IF AvailableSourceCount <= 0
        THEN Returned(refreshed, "UpdateDirectLinkConnection", FALSE)
        ELSE [refreshed EXCEPT !.call = "UpdateDirectLinkConnection",
                               !.result = bConnectionSuccess,
                               !.DirectLinkSourceIndex = Index,
                               !.OpenIndex = Index,
                               !.OpenCount = AvailableSourceCount]

\* BeginPlay: the proxy, then the actor.  ApplyImportOptions, here and in
\* UpdateDirectLinkConnection, copies the settings to the actor and changes
\* no member of the manager.
ManagerBeginPlayOf(m, NewProxyValid, WorldValid, SpawnOk) ==
    LET refreshed == RefreshDirectLinkProxy(m, NewProxyValid)
        initialized == InitializeDatasmithActor(refreshed, WorldValid, SpawnOk)
    IN  Returned([initialized EXCEPT !.began = TRUE], "BeginPlay", initialized.result)

ManagerEndPlayOf(m) ==
    Returned([m EXCEPT !.ended = TRUE, !.DatasmithRuntimeActorRef = "null",
                       !.DirectLinkProxyRef = "null"],
             "EndPlay", TRUE)

ManagerPlays == Manager.began /\ ~Manager.ended

ManagerOnly ==
    UNCHANGED <<bIsListening, TcpListener, bindFailed, IncomingDataQueue, SpawnedLights,
                World, conn, scenePc, ended, imports, enqLog, procLog, tickStart,
                LightIntensity, Other, ParsedLine>>

\* The light syncer as constructed; the manager as placed in the level, its
\* DirectLinkSourceIndex set in the editor (ClampMin = "0").
ManagerInit ==
    /\ bIsListening = FALSE
    /\ TcpListener = "null"
    /\ IncomingDataQueue = <<>>
    /\ SpawnedLights = <<>>
    /\ World = {}
    /\ conn = [c \in Conns |-> NoConn]
    /\ scenePc = "idle"
    /\ ended = FALSE
    /\ imports = 0
    /\ enqLog = <<>>
    /\ procLog = <<>>
    /\ tickStart = {}
    /\ bindFailed = FALSE
    /\ LightIntensity = [l \in {} |-> 0]
    /\ Other = NoOther
    /\ ParsedLine = NoLine
    /\ \E Index \in 0..MaxSourceIndex : \E n \in 0..MaxSources :
          Manager = [ManagerWith(Index) EXCEPT !.Sources = n]

ManagerBeginPlay ==
    /\ ~Manager.began
    /\ \E NewProxyValid \in BOOLEAN : \E WorldValid \in BOOLEAN : \E SpawnOk \in BOOLEAN :
          Manager' = ManagerBeginPlayOf(Manager, NewProxyValid, WorldValid, SpawnOk)
    /\ ManagerOnly

ManagerEndPlay ==
    /\ ManagerPlays
    /\ Manager' = ManagerEndPlayOf(Manager)
    /\ ManagerOnly

CallUpdateDirectLinkConnection ==
    /\ ManagerPlays
    /\ \E NewProxyValid \in BOOLEAN : \E bConnectionSuccess \in BOOLEAN :
          Manager' = UpdateDirectLinkConnection(Manager, NewProxyValid, bConnectionSuccess)
    /\ ManagerOnly

CallInitializeDatasmithActor ==
    /\ ManagerPlays
    /\ \E WorldValid \in BOOLEAN : \E SpawnOk \in BOOLEAN :
          /\ (CallsSpawnActor(Manager, WorldValid) /\ SpawnOk) =>
                Manager.Spawned < MaxSpawns
          /\ Manager' = InitializeDatasmithActor(Manager, WorldValid, SpawnOk)
    /\ ManagerOnly

CallRefreshDirectLinkProxy ==
    /\ ManagerPlays
    /\ \E NewProxyValid \in BOOLEAN :
          Manager' = RefreshDirectLinkProxy(Manager, NewProxyValid)
    /\ ManagerOnly

CallSetDirectLinkSourceIndex ==
    /\ ManagerPlays
    /\ \E InSourceIndex \in (0 - 1)..MaxSourceIndex :
          Manager' = SetDirectLinkSourceIndex(Manager, InSourceIndex)
    /\ ManagerOnly

\* The DirectLink endpoint gains or loses sources.
SourcesChange ==
    /\ ~Manager.ended
    /\ \E n \in 0..MaxSources :
          /\ n # Manager.Sources
          /\ Manager' = [Manager EXCEPT !.Sources = n]
    /\ ManagerOnly

\* The Datasmith runtime actor is destroyed by the engine or by other code:
\* the weak reference stops being valid.
DatasmithActorDestroyed ==
    /\ ~Manager.ended
    /\ Manager.DatasmithRuntimeActorRef = "valid"
    /\ Manager' = [Manager EXCEPT !.DatasmithRuntimeActorRef = "null"]
    /\ ManagerOnly

ManagerNext ==
    \/ ManagerBeginPlay
    \/ ManagerEndPlay
    \/ CallUpdateDirectLinkConnection
    \/ CallInitializeDatasmithActor
    \/ CallRefreshDirectLinkProxy
    \/ CallSetDirectLinkSourceIndex
    \/ SourcesChange
    \/ DatasmithActorDestroyed

ManagerSpec == ManagerInit /\ [][ManagerNext]_vars




\* The engine ticks the actor every frame until EndPlay, and a running
\* ProcessQueuedData loop keeps running: weak fairness of Tick and of the two
\* steps of the loop.  DequeueEnabled is ENABLED <<ProcessQueuedDataDequeue>>_vars,
\* and FairDequeue is WF_vars(ProcessQueuedDataDequeue) with it written out.
DequeueEnabled == scenePc = "draining" /\ IncomingDataQueue # <<>>

FairDequeue ==
    []<>(~DequeueEnabled) \/ []<><<ProcessQueuedDataDequeue>>_vars

LiveSpec ==
    /\ Spec
    /\ WF_vars(Tick)
    /\ WF_vars(ProcessQueuedDataReturn)
    /\ FairDequeue

\* A background task whose Recv has returned for the last time runs on: the
\* thread that runs the lambda goes from Socket->Close() to its end.
TaskSpec == LiveSpec /\ \A c \in Conns : WF_vars(TaskEnqueue(c))

(***************************************************************************)
(* Vocabulary of the properties.                                           *)
(***************************************************************************)
ProcConns == [i \in DOMAIN procLog |-> procLog[i].conn]
Processed == Range(ProcConns)
Pos(seq, x) == CHOOSE i \in DOMAIN seq : seq[i] = x
Occurrences(seq, x) == Cardinality({i \in DOMAIN seq : seq[i] = x})

\* The elements of a finite set of integers, in increasing order.
RECURSIVE Ascending(_)
Ascending(S) ==
    IF S = {} THEN <<>>
    ELSE LET m == CHOOSE x \in S : \A y \in S : x <= y
         IN  <<m>> \o Ascending(S \ {m})

\* A decoding as the wire protocol describes it: the text is a JSON document,
\* and the array elements that are light objects number lightCount.
LightObjects(text) ==
    IF text.doc.hasLights
    THEN {i \in DOMAIN text.doc.lights : text.doc.lights[i].isObject}
    ELSE {}
MalformedJson(text) == ~text.doc.wellFormed
CountMismatch(text) ==
    text.doc.wellFormed /\ Cardinality(LightObjects(text)) # text.doc.lightCount
DecodeFails(text) == MalformedJson(text) \/ CountMismatch(text)
Recognised(text) ==
    {i \in LightObjects(text) : text.doc.lights[i].type \in KnownTypes}

\* The step of the consumer that takes one payload off the queue, and the
\* payload it takes.
TakesPayload ==
    /\ scenePc = "draining"
    /\ Len(procLog') = Len(procLog) + 1
TakenText ==
    CHOOSE q \in Range(IncomingDataQueue) : q.conn = procLog'[Len(procLog')].conn

\* The lights a batch gives when the host refuses the records in `refused`.
LightsOfBatch(text, refused) ==
    LET idx == Ascending(Recognised(text) \ refused)
    IN  [k \in DOMAIN idx |->
            Actor(text.conn, idx[k], text.doc.lights[idx[k]].type)]

\* The step of a connection's background task.
TaskStep(c) == conn[c].pc # "none" /\ conn'[c] # conn[c]

(***************************************************************************)
(* C1 (as stated).  Full replace: when a payload decodes and is applied,   *)
(* every light materialized before is destroyed and the tracked lights are *)
(* afterwards exactly one light per record of the batch, in array order.   *)
(***************************************************************************)
C1_FullReplaceOnePerRecord ==
    [][(TakesPayload /\ ~DecodeFails(TakenText)) =>
         /\ \A l \in Range(SpawnedLights) : l \notin World'
         /\ \A l \in World' : l.src = TakenText.conn
         /\ Len(SpawnedLights') = Len(TakenText.doc.lights)
         /\ \A i \in DOMAIN SpawnedLights' :
               /\ SpawnedLights'[i].src = TakenText.conn
               /\ SpawnedLights'[i].idx = i]_vars

(***************************************************************************)
(* C1 (amended).  Full replace: when a payload decodes and is applied,     *)
(* every light materialized before is destroyed, and the tracked lights    *)
(* are afterwards exactly the lights created from that batch: one per      *)
(* record of a recognised type whose creation the host did not refuse, in  *)
(* array order; nothing from an earlier batch or legacy import survives.   *)
(***************************************************************************)
C1_FullReplace ==
    [][(TakesPayload /\ ~DecodeFails(TakenText)) =>
         /\ \A l \in Range(SpawnedLights) : l \notin World'
         /\ \A l \in World' : l.src = TakenText.conn
         /\ World' = Range(SpawnedLights')
         /\ \E refused \in SUBSET Recognised(TakenText) :
               SpawnedLights' = LightsOfBatch(TakenText, refused)]_vars

C1_Witness ==
    /\ Len(procLog) = 2
    /\ procLog[1].log = "parsed"
    /\ procLog[2].log = "parsed"
    /\ Len(SpawnedLights) = 2
    /\ \A l \in World : l.src = procLog[2].conn

(***************************************************************************)
(* C2.  A payload whose decoding fails (malformed JSON or a light-count    *)
(* mismatch) leaves the tracked lights and the world as they were, is      *)
(* removed from the queue, and the consumer stays in its loop to take the  *)
(* next payload.                                                           *)
(***************************************************************************)
C2_RejectLeavesLights ==
    [][(TakesPayload /\ DecodeFails(TakenText)) =>
         /\ UNCHANGED <<SpawnedLights, World>>
         /\ TakenText.conn \notin {IncomingDataQueue'[i].conn :
                                      i \in DOMAIN IncomingDataQueue'}
         /\ Len(IncomingDataQueue') = Len(IncomingDataQueue) - 1
         /\ scenePc' = "draining"]_vars

C2_Witness ==
    /\ Len(procLog) = 2
    /\ procLog[1].log = "parsed"
    /\ procLog[2].log = "parseError"
    /\ SpawnedLights # <<>>
    /\ \A l \in Range(SpawnedLights) : l.src = procLog[1].conn /\ l \in World

ParsedConns == {procLog[i].conn : i \in {j \in DOMAIN procLog : procLog[j].log = "parsed"}}
LastParsed ==
    IF ParsedConns = {} THEN 0
    ELSE CHOOSE c \in ParsedConns :
            \A d \in ParsedConns : Pos(enqLog, d) <= Pos(enqLog, c)

C4_Fifo ==
    /\ Len(procLog) <= Len(enqLog)
    /\ ProcConns = SubSeq(enqLog, 1, Len(procLog))
    /\ [i \in DOMAIN IncomingDataQueue |-> IncomingDataQueue[i].conn]
          = SubSeq(enqLog, Len(procLog) + 1, Len(enqLog))
    /\ \A l \in Range(SpawnedLights) : l.src > 0 => l.src = LastParsed

C4_Witness ==
    /\ scenePc = "draining"
    /\ Cardinality(tickStart) = 2
    /\ Len(procLog) = 2
    /\ procLog[2].log = "parsed"
    /\ SpawnedLights # <<>>

(***************************************************************************)
(* C5.  Enqueue order, not accept order: if connection a was accepted      *)
(* before connection b but b enqueued first, then b's payload is taken     *)
(* before a's.                                                             *)
(***************************************************************************)
C5_EnqueueOrderNotAcceptOrder ==
    \A a, b \in Conns :
        (/\ a < b
         /\ a \in Range(enqLog)
         /\ b \in Range(enqLog)
         /\ Pos(enqLog, b) < Pos(enqLog, a)
         /\ a \in Processed)
        => (b \in Processed /\ Pos(ProcConns, b) < Pos(ProcConns, a))

C5_Witness ==
    /\ enqLog = <<2, 1>>
    /\ ProcConns = <<2, 1>>
    /\ procLog[1].log = "parsed"
    /\ procLog[2].log = "parsed"
    /\ SpawnedLights # <<>>
    /\ \A l \in Range(SpawnedLights) : l.src = 1

(***************************************************************************)
(* C6.  A connection task never decodes, creates or destroys a light, or   *)
(* changes the tracked set: every such change is a step of the game thread *)
(* (no task and no listener step), and a payload is decoded only inside    *)
(* ProcessQueuedData.                                                      *)
(***************************************************************************)
C6_OnlySceneThreadTouchesLights ==
    [][/\ (\E c \in Conns : TaskStep(c)) =>
             UNCHANGED <<SpawnedLights, World, procLog, scenePc>>
       /\ (SpawnedLights' # SpawnedLights \/ World' # World \/ procLog' # procLog)
             => UNCHANGED conn
       /\ procLog' # procLog => scenePc = "draining"]_vars

C6_Witness ==
    /\ conn[1].pc = "done"
    /\ conn[2].pc = "reading"
    /\ conn[2].ReceivedData > 0
    /\ Processed = {1}
    /\ SpawnedLights # <<>>

(***************************************************************************)
(* C7.  A connection enqueues at most once, only when its task ends, and   *)
(* the step that ends its task enqueues exactly when it received a byte.   *)
(***************************************************************************)
C7_AtMostOneEntry ==
    /\ [](\A c \in Conns :
             /\ Occurrences(enqLog, c) <= 1
             /\ Cardinality({i \in DOMAIN IncomingDataQueue :
                                IncomingDataQueue[i].conn = c}) <= 1
             /\ conn[c].pc # "done" => c \notin Range(enqLog))
    /\ [][\A c \in Conns :
             (conn[c].pc = "closed" /\ conn'[c].pc = "done") =>
                /\ c \in Range(enqLog') <=> conn[c].ReceivedData > 0
                /\ c \in Range(enqLog') <=> enqLog' # enqLog]_vars

C7_Witness ==
    /\ conn[1].pc = "done"
    /\ conn[2].pc = "done"
    /\ enqLog = <<2>>
    /\ QueuedConns = {2}

(***************************************************************************)
(* C8.  When one invocation of ProcessQueuedData returns, no payload that  *)
(* was queued when the invocation began is still queued.                   *)
(***************************************************************************)
C8_DrainsFully ==
    [][(scenePc = "draining" /\ scenePc' = "idle") =>
         \A c \in tickStart :
            c \notin {IncomingDataQueue'[i].conn : i \in DOMAIN IncomingDataQueue'}]_vars

C8_Witness ==
    /\ scenePc = "draining"
    /\ Cardinality(tickStart) = 2
    /\ IncomingDataQueue = <<>>
    /\ tickStart \subseteq Processed

(***************************************************************************)
(* C9.  While the syncer ticks, every enqueued payload is eventually taken *)
(* by the consumer (and applied or rejected).                              *)
(***************************************************************************)
C9_EventuallyProcessed ==
    \A c \in Conns : (c \in QueuedConns) ~> (c \in Processed \/ ended)

C9_Witness ==
    /\ ~ended
    /\ Len(enqLog) = 2
    /\ Processed = {1, 2}
    /\ scenePc = "idle"

(***************************************************************************)
(* C10.  The listener is Stopped or Listening.  It goes from Stopped to    *)
(* Listening only by a start that leaves a live listener, and from         *)
(* Listening to Stopped only by a stop that drops it; both are game-thread *)
(* steps.  Accepting a connection and the steps of its task never change   *)
(* the listener, and a handled connection leaves only a closed socket.     *)
(***************************************************************************)
ListenerState == IF bIsListening THEN "Listening" ELSE "Stopped"

C10_ListenerStates ==
    [][/\ ListenerState' # ListenerState =>
             /\ UNCHANGED <<conn, IncomingDataQueue, scenePc>>
             /\ scenePc = "idle"
             /\ \/ ListenerState = "Stopped" /\ TcpListener = "null"
                      /\ TcpListener' = "active"
                \/ ListenerState = "Listening" /\ TcpListener' = "null"
       /\ conn' # conn => UNCHANGED <<bIsListening, TcpListener>>
       /\ \A c \in Conns : conn'[c].pc = "done" => conn'[c].socket = "closed"]_vars

C10_Witness ==
    /\ bIsListening
    /\ conn[1].pc = "done"
    /\ conn[2].pc = "reading"
    /\ 1 \in Processed

(***************************************************************************)
(* C11.  Whatever start and stop calls were made, the one listener object  *)
(* the actor owns exists, and accepts, exactly when the state is           *)
(* Listening; so a start while Listening leaves that listener in place and *)
(* makes no other, and a stop while Stopped finds none to drop.            *)
(***************************************************************************)
C11_OneListenerIffListening ==
    /\ bIsListening <=> (TcpListener = "active")
    /\ ~bIsListening <=> (TcpListener = "null")

C11_Witness ==
    /\ ~bIsListening
    /\ TcpListener = "null"
    /\ ~ended
    /\ ~bindFailed
    /\ conn[1].pc = "done"
    /\ conn[2].pc = "none"

(***************************************************************************)
(* C12.  A start that cannot bind is reported and leaves the listener      *)
(* Stopped with no listener object kept.  Nothing retries: the listener    *)
(* leaves Stopped only by a later start call, a game-thread step that      *)
(* changes the listener alone, and such a call can succeed.                *)
(***************************************************************************)
C12_BindFailure ==
    /\ [](bindFailed => ~bIsListening /\ TcpListener = "null")
    /\ []((bindFailed /\ SceneIdle) =>
             ENABLED <<StartTcpListener /\ bIsListening'>>_vars)
    /\ [][/\ (bindFailed' /\ ~bindFailed) =>
                /\ ~bIsListening
                /\ scenePc = "idle"
                /\ UNCHANGED <<IncomingDataQueue, SpawnedLights, World, conn,
                               scenePc, ended, imports, enqLog, procLog>>
          /\ (bindFailed /\ bIsListening') =>
                /\ scenePc = "idle"
                /\ ~bindFailed'
                /\ TcpListener' = "active"
                /\ UNCHANGED <<IncomingDataQueue, SpawnedLights, World, conn,
                               scenePc, ended, imports, enqLog, procLog>>
          /\ (bindFailed /\ (conn' # conn \/ scenePc' # scenePc \/ procLog' # procLog))
                => (bindFailed' /\ ~bIsListening')]_vars

C12_Witness ==
    /\ bindFailed
    /\ ~bIsListening
    /\ TcpListener = "null"
    /\ scenePc = "idle"
    /\ ~ended
    /\ conn[1].pc = "done"

(***************************************************************************)
(* C13.  Stop never waits for a connection task and cancels none: it can   *)
(* run whatever the tasks are doing, the step that stops the listener      *)
(* leaves every task, its socket and the queue as they were, and after it  *)
(* a task still reads, still closes its socket and still enqueues.         *)
(***************************************************************************)
C13_StopDoesNotWait ==
    /\ []((bIsListening /\ SceneIdle) => ENABLED <<StopTcpListener>>_vars)
    /\ [](\A c \in Conns :
             /\ (conn[c].pc = "reading" /\ conn[c].ReceivedData < MaxChunks)
                   => ENABLED <<TaskRecv(c)>>_vars
             /\ conn[c].pc = "reading" => ENABLED <<TaskRecvEnd(c)>>_vars
             /\ conn[c].pc = "closed" => ENABLED <<TaskEnqueue(c)>>_vars)
    /\ [][(bIsListening /\ ~bIsListening') =>
             UNCHANGED <<conn, IncomingDataQueue, enqLog>>]_vars

C13_Witness ==
    /\ ~bIsListening
    /\ ~ended
    /\ conn[1].pc = "closed"
    /\ conn[1].ReceivedData > 0
    /\ conn[2].pc = "reading"

(***************************************************************************)
(* C14 (as stated).  Once the listener is stopped, every payload in the    *)
(* queue is eventually taken by the consumer and decoded, also when the    *)
(* stop was the one EndPlay makes.                                         *)
(***************************************************************************)
C14_DrainedAfterStop ==
    \A c \in Conns : (~bIsListening /\ c \in QueuedConns) ~> (c \in Processed)

(***************************************************************************)
(* C14 (amended).  After a stop the next ticks still drain the queue: a    *)
(* payload queued while the listener is stopped is eventually taken and    *)
(* decoded unless the syncer ends play first.  EndPlay itself drains       *)
(* nothing, and once play has ended no payload is taken any more.          *)
(***************************************************************************)
C14_DrainedWhileTicking ==
    /\ \A c \in Conns :
          (~bIsListening /\ c \in QueuedConns) ~> (c \in Processed \/ ended)
    /\ [][(ended' /\ ~ended) => UNCHANGED <<IncomingDataQueue, procLog>>]_vars
    /\ [][ended => UNCHANGED procLog]_vars

C14_Witness ==
    /\ ~bIsListening
    /\ ~ended
    /\ scenePc = "draining"
    /\ Len(procLog) = 1
    /\ IncomingDataQueue # <<>>

(***************************************************************************)
(* Vocabulary of the properties about one application of a batch.  The     *)
(* payload the consumer is about to take is the head of the queue; the     *)
(* host's answer is the set of records whose creation it refuses.          *)
(***************************************************************************)
NextText == Head(IncomingDataQueue)
HostAnswers(text) == SUBSET Recognised(text)
UnknownRecords(text) == LightObjects(text) \ Recognised(text)

\* What a sequence of lights shows of the batch that made it: the record and
\* the kind of each light, in order.
Kinds(lights) ==
    [i \in DOMAIN lights |->
        [idx |-> lights[i].idx, LightType |-> lights[i].LightType]]

\* The event tags a sender may write.
Events == {"add", "delete", "modify", "undelete", "other"}
WithEvent(text, e) == [text EXCEPT !.doc.event = e]

(***************************************************************************)
(* C15.  ClearExistingLights destroys every tracked light and leaves the   *)
(* tracked set empty; on an empty set it changes nothing, and a second     *)
(* call right after the first changes nothing more.                        *)
(***************************************************************************)
C15_ClearIdempotent ==
    LET once == ClearExistingLightsOf(Scene)
        twice == ClearExistingLightsOf(once)
    IN  /\ once.SpawnedLights = <<>>
        /\ \A l \in Range(SpawnedLights) : l \notin once.World
        /\ once.World \subseteq World
        /\ twice = once
        /\ SpawnedLights = <<>> => once = Scene

C15_Witness ==
    /\ Len(SpawnedLights) = 2
    /\ World = Range(SpawnedLights)
    /\ scenePc = "idle"
    /\ ~ended
    /\ imports = 0
    /\ ClearExistingLightsOf(Scene).World = {}

(***************************************************************************)
(* C16.  Full-replace idempotence: whatever the scene holds, applying the  *)
(* valid batch at the head of the queue and then the same batch again (as  *)
(* the payload of another connection) leaves only lights of the second     *)
(* application; under the same host answers they are as many, of the same  *)
(* records and kinds, as after one application, and under any host answers *)
(* two applications give what one application can give.                    *)
(***************************************************************************)
C16_FullReplaceIdempotent ==
    [](DequeueEnabled /\ ~DecodeFails(NextText) =>
         LET onceKinds == {Kinds(ProcessReceivedLightData(Scene, NextText, r).SpawnedLights) :
                              r \in HostAnswers(NextText)}
             b == CHOOSE c \in Conns : c # NextText.conn
             again == Text(b, NextText.doc)
         IN  \A r1 \in HostAnswers(NextText) :
                LET once == ProcessReceivedLightData(Scene, NextText, r1)
                IN  \A r2 \in HostAnswers(NextText) :
                       LET twice == ProcessReceivedLightData(once, again, r2)
                       IN  /\ twice.World = Range(twice.SpawnedLights)
                           /\ \A l \in twice.World : l.src = b
                           /\ Kinds(twice.SpawnedLights) \in onceKinds
                           /\ r2 = r1 =>
                                 /\ Len(twice.SpawnedLights) = Len(once.SpawnedLights)
                                 /\ Kinds(twice.SpawnedLights) = Kinds(once.SpawnedLights)
                                 /\ Cardinality(twice.World) = Cardinality(once.World))

C16_Witness ==
    /\ scenePc = "draining"
    /\ Len(procLog) = 1
    /\ procLog[1].log = "parsed"
    /\ SpawnedLights = LightsOfBatch(Text(1, DocValid), {})
    /\ IncomingDataQueue = <<Text(2, DocValid)>>

(***************************************************************************)
(* C17.  The event tag is ignored: applying the payload at the head of the *)
(* queue gives the same scene whatever event string it carries, and after  *)
(* a batch is applied, a "delete" batch too, every light in the world is a *)
(* light of a record of that batch.                                        *)
(***************************************************************************)
C17_EventIgnored ==
    [](DequeueEnabled =>
         \A r \in HostAnswers(NextText) :
            LET asSent == ProcessReceivedLightData(Scene, NextText, r)
            IN  /\ \A e \in Events \ {NextText.doc.event} :
                      ProcessReceivedLightData(Scene, WithEvent(NextText, e), r) = asSent
                /\ ~DecodeFails(NextText) =>
                      \A l \in asSent.World :
                         /\ l.src = NextText.conn
                         /\ l.idx \in LightObjects(NextText))

C17_Witness ==
    /\ Len(procLog) = 2
    /\ procLog[1].log = "parsed"
    /\ procLog[2].log = "parsed"
    /\ SpawnedLights = LightsOfBatch(Text(procLog[2].conn, DocAmbient), {})
    /\ World = Range(SpawnedLights)
    /\ DocAmbient.event = "delete"

(***************************************************************************)
(* C18 (as stated).  A batch with a record of unknown type is still        *)
(* applied, and the tracked lights are then one per record of a recognised *)
(* type: their number is the number of those records.                      *)
(***************************************************************************)
C18_CountEqualsRecognised ==
    (DequeueEnabled /\ ~DecodeFails(NextText) /\ UnknownRecords(NextText) # {}) =>
        \A r \in HostAnswers(NextText) :
            LET st == ProcessReceivedLightData(Scene, NextText, r)
            IN  /\ \A l \in Range(SpawnedLights) : l \notin st.World
                /\ \A l \in Range(st.SpawnedLights) : l.idx \notin UnknownRecords(NextText)
                /\ Len(st.SpawnedLights) = Cardinality(Recognised(NextText))

(***************************************************************************)
(* C18 (amended).  A batch with a record of unknown type is still applied: *)
(* the earlier lights are destroyed, no light is made for the unknown      *)
(* record, and the tracked lights are one per record of a recognised type  *)
(* that the host did not refuse to create, in array order; their number is *)
(* the number of those records.                                            *)
(***************************************************************************)
C18_UnknownTypeDropped ==
    (DequeueEnabled /\ ~DecodeFails(NextText) /\ UnknownRecords(NextText) # {}) =>
        \A r \in HostAnswers(NextText) :
            LET st == ProcessReceivedLightData(Scene, NextText, r)
            IN  /\ \A l \in Range(SpawnedLights) : l \notin st.World
                /\ \A l \in Range(st.SpawnedLights) : l.idx \notin UnknownRecords(NextText)
                /\ Len(st.SpawnedLights) = Cardinality(Recognised(NextText) \ r)
                /\ st.SpawnedLights = LightsOfBatch(NextText, r)

C18_Witness ==
    /\ procLog # <<>>
    /\ procLog[Len(procLog)].log = "parsed"
    /\ SpawnedLights = <<Actor(procLog[Len(procLog)].conn, 2, "Directional")>>
    /\ World = Range(SpawnedLights)
    /\ scenePc = "draining"

(***************************************************************************)
(* C19 (as stated).  When the host refuses one light of a batch, that      *)
(* light is not tracked and every other record of the batch is.            *)
(***************************************************************************)
C19_AllOthersTracked ==
    (DequeueEnabled /\ ~DecodeFails(NextText)) =>
        \A i \in Recognised(NextText) :
            LET st == ProcessReceivedLightData(Scene, NextText, {i})
            IN  /\ \A l \in Range(st.SpawnedLights) \cup st.World : l.idx # i
                /\ \A j \in LightObjects(NextText) \ {i} :
                      \E l \in Range(st.SpawnedLights) : l.idx = j

(***************************************************************************)
(* C19 (amended).  When the host refuses one light of a batch, that light  *)
(* is not tracked and is not in the world, and every other record of a     *)
(* recognised type is created and tracked, in array order.                 *)
(***************************************************************************)
C19_OnlyRefusedSkipped ==
    (DequeueEnabled /\ ~DecodeFails(NextText)) =>
        \A i \in Recognised(NextText) :
            LET st == ProcessReceivedLightData(Scene, NextText, {i})
            IN  /\ \A l \in Range(st.SpawnedLights) \cup st.World : l.idx # i
                /\ \A j \in Recognised(NextText) \ {i} :
                      \E l \in Range(st.SpawnedLights) : l.idx = j
                /\ st.SpawnedLights = LightsOfBatch(NextText, {i})
                /\ st.World = Range(st.SpawnedLights)

C19_Witness ==
    /\ procLog # <<>>
    /\ procLog[Len(procLog)].log = "parsed"
    /\ SpawnedLights = <<Actor(procLog[Len(procLog)].conn, 2, "Spot")>>
    /\ World = Range(SpawnedLights)

(***************************************************************************)
(* Vocabulary of the legacy import: the lines of a file that decode, and   *)
(* those among them whose type is one of the three kinds.                  *)
(***************************************************************************)
DecodedLines(file) ==
    IF file.loadable
    THEN {i \in DOMAIN file.lines :
             /\ ~file.lines[i].skip
             /\ file.lines[i].ncomp >= 5
             /\ file.lines[i].locOk}
    ELSE {}
RecognisedLines(file) ==
    {i \in DecodedLines(file) : file.lines[i].type \in KnownTypes}
LegacyLights(file, refused, src) ==
    LET idx == Ascending(RecognisedLines(file) \ refused)
    IN  [k \in DOMAIN idx |-> Actor(src, idx[k], file.lines[idx[k]].type)]

(***************************************************************************)
(* C20 (as stated).  A legacy import destroys every light tracked before   *)
(* and leaves one light per line of the file that decodes.                 *)
(***************************************************************************)
C20_OneLightPerDecodedLine ==
    [][imports' # imports =>
         /\ \A l \in Range(SpawnedLights) : l \notin World'
         /\ \E file \in Files :
               /\ Len(SpawnedLights') = Cardinality(DecodedLines(file))
               /\ {l.idx : l \in Range(SpawnedLights')} = DecodedLines(file)]_vars

(***************************************************************************)
(* C20 (amended).  A legacy import destroys every light materialized       *)
(* before and then tracks one light per line that decodes, has one of the  *)
(* three light types and was not refused by the host, in file order; a     *)
(* line that fails to decode does not stop the lines after it.             *)
(***************************************************************************)
C20_LegacyFullReplace ==
    []((SceneIdle /\ imports < MaxImports) =>
         \A file \in Files : \A r \in SUBSET RecognisedLines(file) :
            LET src == 0 - (imports + 1)
                st == LoadAndSpawnLightsOf(Scene, file, src, r)
            IN  /\ \A l \in Range(SpawnedLights) \cup World : l \notin st.World
                /\ st.World = Range(st.SpawnedLights)
                /\ st.SpawnedLights = LegacyLights(file, r, src)
                /\ Len(st.SpawnedLights) = Cardinality(RecognisedLines(file) \ r))

C20_Witness ==
    /\ imports = 1
    /\ procLog # <<>>
    /\ procLog[1].log = "parsed"
    /\ SpawnedLights = LegacyLights(FileMixed, {}, 0 - 1)
    /\ Len(SpawnedLights) = 2
    /\ World = Range(SpawnedLights)

(***************************************************************************)
(* Vocabulary of the properties about the fields of a payload.  The light  *)
(* objects of a payload in array order (the k-th decoded light comes from  *)
(* the k-th of them), the objects that carry both required scalar fields,  *)
(* the documents that carry the three required top-level fields, and the   *)
(* intensity the scale rule gives a light of a kind.                       *)
(***************************************************************************)
ObjectsOf(text) == Ascending(LightObjects(text))
SentRecord(text, k) == text.doc.lights[ObjectsOf(text)[k]]
Complete(obj) == obj.isObject /\ obj.hasType /\ obj.hasIntensity
CompleteObjects(text) ==
    {i \in LightObjects(text) : Complete(text.doc.lights[i])}
HasTopLevelFields(d) == d.hasEvent /\ d.hasLightCount /\ d.hasLights
LastLog == procLog'[Len(procLog')].log
ExpectedIntensity(LightType, sent) ==
    CASE LightType \in {"Point", "Spot"} -> sent * 1000
      [] LightType = "Directional" -> sent * 10
      [] OTHER -> 0 - 1

(***************************************************************************)
(* C21.  A light object that lacks "type" or "intensity" is dropped from   *)
(* the decoded batch while the other entries are decoded: the decoded      *)
(* batch has one entry per complete light object, and when the batch is    *)
(* applied every tracked light is the light of a complete object, with     *)
(* that object's type and scaled intensity, never one with a default.      *)
(***************************************************************************)
C21_IncompleteLightDropped ==
    [][(TakesPayload /\ TakenText.doc.wellFormed /\ TakenText.doc.hasLights) =>
         /\ Len(ParseJsonLightData(TakenText).Lights)
               = Cardinality(CompleteObjects(TakenText))
         /\ LastLog = "parsed" =>
               \A l \in Range(SpawnedLights') :
                  \E i \in CompleteObjects(TakenText) :
                     /\ TakenText.doc.lights[i].type = l.LightType
                     /\ LightIntensity'[l] =
                           ExpectedIntensity(l.LightType,
                                             TakenText.doc.lights[i].intensity)]_vars

(***************************************************************************)
(* C22.  A well-formed document that lacks "event", "lightCount" or        *)
(* "lights" is not accepted as a batch: it is rejected, and the tracked    *)
(* lights and the world are left as they were.                             *)
(***************************************************************************)
C22_MissingTopLevelRejected ==
    [][(TakesPayload /\ TakenText.doc.wellFormed
           /\ ~HasTopLevelFields(TakenText.doc)) =>
         /\ LastLog # "parsed"
         /\ UNCHANGED <<SpawnedLights, World>>]_vars

(***************************************************************************)
(* C23.  Intensity scaling: a light materialized from a wire record or a   *)
(* legacy line has the intensity that was sent times 1000 when it is a     *)
(* Point or Spot light, times 10 when it is a Directional light.           *)
(***************************************************************************)
C23_IntensityScaled ==
    /\ [][(TakesPayload /\ LastLog = "parsed") =>
            \A l \in Range(SpawnedLights') :
               LET obj == SentRecord(TakenText, l.idx)
               IN  /\ l.LightType = obj.type
                   /\ l.LightType \in KnownTypes
                   /\ obj.hasIntensity =>
                         LightIntensity'[l] =
                            ExpectedIntensity(l.LightType, obj.intensity)]_vars
    /\ [][imports' # imports =>
            \E file \in LegacyFiles :
               \A l \in Range(SpawnedLights') :
                  /\ l.idx \in DOMAIN file.lines
                  /\ l.LightType = file.lines[l.idx].type
                  /\ l.LightType \in KnownTypes
                  /\ LightIntensity'[l] =
                        ExpectedIntensity(l.LightType, file.lines[l.idx].intensity)]_vars
    /\ [](DOMAIN LightIntensity = World)

C23_Witness ==
    /\ SpawnedLights = <<Actor(2, 1, "Directional"), Actor(2, 2, "Spot")>>
    /\ LightIntensity[Actor(2, 1, "Directional")] = 20
    /\ LightIntensity[Actor(2, 2, "Spot")] = 2000
    /\ imports = 1
    /\ procLog # <<>>

(***************************************************************************)
(* C24.  Handling one connection never blocks the acceptor.  The accept    *)
(* callback only spawns the task of the new connection: it changes nothing *)
(* else, and it can run whenever the listener is active, whatever the      *)
(* tasks of earlier connections are doing; every task in its read loop can *)
(* go on reading, or end its loop, whatever the others do.                 *)
(***************************************************************************)
FreeSlot == \E c \in Conns : conn[c].pc = "none"
Reading == {c \in Conns : conn[c].pc = "reading"}
Accepts(c) == conn[c].pc = "none" /\ conn'[c].pc = "reading"

C24_AcceptorNeverBlocked ==
    /\ []((TcpListener = "active" /\ FreeSlot) => ENABLED HandleConnectionAccepted)
    /\ [](\A c \in Reading :
             /\ ENABLED TaskRecvEnd(c)
             /\ conn[c].ReceivedData < MaxChunks => ENABLED TaskRecv(c))
    /\ [][\A c \in Conns : Accepts(c) =>
             /\ \A b \in Conns \ {c} : conn'[b] = conn[b]
             /\ conn'[c].ReceivedData = 0
             /\ UNCHANGED <<bIsListening, TcpListener, IncomingDataQueue,
                            SpawnedLights, World, scenePc>>]_vars

\* The second connection was accepted and has read a chunk while the first,
\* which has read a chunk too, is still in its read loop.
C24_Witness ==
    /\ Cardinality(Reading) >= 2
    /\ \A c \in Reading : conn[c].ReceivedData > 0
    /\ TcpListener = "active"

(***************************************************************************)
(* C25.  No failure is fatal.  A payload that fails to decode, a batch for *)
(* which the host refuses a light, and the end of a read loop (a read      *)
(* error included) leave the listener state as it was; in every state,     *)
(* hence after any such failure, an active listener with a connection to   *)
(* accept accepts it, and a valid payload that is taken is applied.        *)
(***************************************************************************)
Refuses == Len(SpawnedLights') < Cardinality(Recognised(TakenText))
ReadEnds(c) == conn[c].pc = "reading" /\ conn'[c].pc # "reading"
FailedBefore == \E i \in DOMAIN procLog : procLog[i].log # "parsed"

C25_NoFailureFatal ==
    /\ [][((TakesPayload /\ (LastLog # "parsed" \/ Refuses))
              \/ \E c \in Conns : ReadEnds(c))
            => UNCHANGED <<bIsListening, TcpListener, ended>>]_vars
    /\ []((FailedBefore /\ TcpListener = "active" /\ FreeSlot)
            => ENABLED HandleConnectionAccepted)
    /\ [][(TakesPayload /\ FailedBefore /\ ~DecodeFails(TakenText)) =>
            /\ LastLog = "parsed"
            /\ \E refused \in SUBSET Recognised(TakenText) :
                  SpawnedLights' = LightsOfBatch(TakenText, refused)]_vars

\* The first payload failed to decode, the second was applied, and the
\* listener is still listening.
C25_Witness ==
    /\ Len(procLog) = 2
    /\ procLog[1].log # "parsed"
    /\ procLog[2].log = "parsed"
    /\ \E l \in Range(SpawnedLights) : l.src = procLog[2].conn
    /\ bIsListening
    /\ TcpListener = "active"

(***************************************************************************)
(* C27.  The socket of a connection is closed by the step that ends its    *)
(* read loop, whether or not anything was read; it is open exactly while   *)
(* the loop runs, so it is already closed when the task enqueues the       *)
(* payload and when the consumer takes the payload to decode it.           *)
(***************************************************************************)
Enqueues(c) == Len(enqLog') = Len(enqLog) + 1 /\ enqLog'[Len(enqLog')] = c

C27_SocketClosedAfterRead ==
    /\ [](\A c \in Conns :
             /\ conn[c].pc = "reading" => conn[c].socket = "open"
             /\ conn[c].pc \in {"closed", "done"} => conn[c].socket = "closed")
    /\ [][\A c \in Conns :
             /\ ReadEnds(c) =>
                   conn'[c].socket = "closed" /\ UNCHANGED <<IncomingDataQueue, procLog>>
             /\ Enqueues(c) => conn[c].socket = "closed"]_vars
    /\ [][TakesPayload => conn[TakenText.conn].socket = "closed"]_vars

\* One connection ended its loop with nothing read, the payload of another
\* is queued and not yet decoded; both sockets are closed.
C27_Witness ==
    /\ \E c \in Conns :
          conn[c].pc = "closed" /\ conn[c].ReceivedData = 0
             /\ conn[c].socket = "closed"
    /\ \E c \in QueuedConns : conn[c].socket = "closed"

(***************************************************************************)
(* C28.  A connection task whose read loop has ended (the peer closed, or  *)
(* a read failed) terminates.  A task leaves its read loop by no other     *)
(* step, so a task whose peer neither sends nor closes stays in the loop:  *)
(* it terminates and enqueues only after the loop has ended.  Meanwhile    *)
(* the tasks of other connections terminate and the consumer takes their   *)
(* payloads.                                                               *)
(***************************************************************************)
Terminates(c) == conn[c].pc # "done" /\ conn'[c].pc = "done"

ThisActs == ProcessQueuedDataDequeue \/ LoadAndSpawnLights \/ ClearExistingLights
OtherActs ==
    OtherProcessQueuedData \/ OtherLoadAndSpawnLights \/ OtherClearExistingLights
Survive(lights) ==
    \A l \in Range(lights) :
       l \in World => l \in World' /\ LightIntensity'[l] = LightIntensity[l]

C26_InstancesIndependent ==
    /\ [](Range(SpawnedLights) \cap Range(Other.SpawnedLights) = {})
    /\ [][ThisActs => Other' = Other /\ Survive(Other.SpawnedLights)]_vars
    /\ [][OtherActs =>
            /\ UNCHANGED <<SpawnedLights, IncomingDataQueue, bIsListening, TcpListener>>
            /\ Survive(SpawnedLights)]_vars

\* Both instances track lights, the second has a payload queued and is
\* listening, and the first has applied a batch after the second spawned.
C26_Witness ==
    /\ SpawnedLights # <<>>
    /\ Other.SpawnedLights # <<>>
    /\ Range(SpawnedLights) \cup Range(Other.SpawnedLights) \subseteq World
    /\ Other.IncomingDataQueue # <<>>
    /\ Other.bIsListening
    /\ Len(procLog) = 2
    /\ imports = 1

(***************************************************************************)
(* C29.  When the syncer ends play the listener is stopped and every light *)
(* it spawned is destroyed: the step that ends play leaves the listener    *)
(* Stopped, the tracked light set empty and none of the lights tracked     *)
(* before in the world, and it stays so afterwards.                        *)
(***************************************************************************)
EndsPlay == ~ended /\ ended'

C29_EndPlayStopsAndClears ==
    /\ [][EndsPlay =>
            /\ ~bIsListening'
            /\ TcpListener' = "null"
            /\ SpawnedLights' = <<>>
            /\ \A l \in Range(SpawnedLights) : l \notin World']_vars
    /\ [](ended => (~bIsListening /\ TcpListener = "null" /\ SpawnedLights = <<>>))

(***************************************************************************)
(* Vocabulary of the tokenizer properties: the parentheses of a line that  *)
(* match each other, and the positions that lie between such a pair.       *)
(***************************************************************************)
Count(LineText, from, to, ch) == Cardinality({m \in from..to : LineText[m] = ch})
Matching(LineText, j, k) ==
    /\ j < k
    /\ LineText[j] = "("
    /\ LineText[k] = ")"
    /\ Count(LineText, j + 1, k - 1, "(") = Count(LineText, j + 1, k - 1, ")")
    /\ \A m \in (j + 1)..(k - 1) :
          Count(LineText, j + 1, m, "(") >= Count(LineText, j + 1, m, ")")
Enclosed(LineText, i) ==
    \E j \in 1..(i - 1) : \E k \in (i + 1)..Len(LineText) : Matching(LineText, j, k)
WasParsed == ParsedLine.log # "none"

(***************************************************************************)
(* C30.  The legacy tokenizer splits a line on spaces only outside         *)
(* parentheses: no space between a "(" and the matching ")" ends a         *)
(* component, no component is empty, and a line that gives fewer than 5    *)
(* components is rejected as a record.                                     *)
(***************************************************************************)
C30_SplitsOutsideParentheses ==
    WasParsed =>
       /\ \A i \in ParsedLine.SplitAt : ~Enclosed(ParsedLine.Line, i)
       /\ \A c \in DOMAIN ParsedLine.Components : ParsedLine.Components[c] # <<>>
       /\ Len(ParsedLine.Components) < 5 =>
             ~ParsedLine.bIsValid /\ ParsedLine.log = "notEnough"

(***************************************************************************)
(* C30 (amended).  The tokenizer keeps a flag, not a nesting depth: a      *)
(* space ends a component exactly when no "(" before it is still open for  *)
(* the flag, that is, when the last parenthesis before it is not a "(",    *)
(* and a component is being gathered.  So a space between a "(" and the    *)
(* next ")" never ends a component; no component is empty; and a line that *)
(* gives fewer than 5 components is rejected as a record.                  *)
(***************************************************************************)
OpenBefore(LineText, i) ==
    \E j \in 1..(i - 1) :
       LineText[j] = "(" /\ \A m \in (j + 1)..(i - 1) : LineText[m] # ")"
SplittingSpaces(LineText) ==
    {i \in DOMAIN LineText :
        /\ LineText[i] = " "
        /\ ~OpenBefore(LineText, i)
        /\ i > 1
        /\ LineText[i - 1] # " "}

C30_SplitsOutsideOpenGroup ==
    WasParsed =>
       /\ ParsedLine.SplitAt = SplittingSpaces(ParsedLine.Line)
       /\ \A i \in ParsedLine.SplitAt : ~OpenBefore(ParsedLine.Line, i)
       /\ \A c \in DOMAIN ParsedLine.Components : ParsedLine.Components[c] # <<>>
       /\ Len(ParsedLine.Components) < 5 =>
             ~ParsedLine.bIsValid /\ ParsedLine.log = "notEnough"
       /\ Len(ParsedLine.Components) >= 5 => ParsedLine.log # "notEnough"

\* The line "x  (x x)": the run of two spaces gave no empty component, the
\* space inside the group ended none, and the two components are too few.
C30_Witness ==
    /\ WasParsed
    /\ ParsedLine.Line = <<"x", " ", " ", "(", "x", " ", "x", ")">>
    /\ ParsedLine.Components = <<<<"x">>, <<"(", "x", " ", "x", ")">>>>
    /\ ParsedLine.SplitAt = {2}
    /\ ParsedLine.log = "notEnough"

(***************************************************************************)
(* Vocabulary of the properties about one component of a legacy record.    *)
(***************************************************************************)
Parsed(Role) == ParsedLine.log # "none" /\ ParsedLine.Role = Role
PiecesOf(Component) == ParseIntoArray(Component)

(***************************************************************************)
(* C31.  The legacy rotation component (p,y,r) is decoded piece by piece:  *)
(* pitch is the first value, yaw the second, roll the third.               *)
(***************************************************************************)
C31_RotationPitchYawRoll ==
    (Parsed("rotation") /\ Len(PiecesOf(ParsedLine.Component)) = 3) =>
       /\ ParsedLine.Rotation.Pitch = Atof(PiecesOf(ParsedLine.Component)[1])
       /\ ParsedLine.Rotation.Yaw = Atof(PiecesOf(ParsedLine.Component)[2])
       /\ ParsedLine.Rotation.Roll = Atof(PiecesOf(ParsedLine.Component)[3])

(***************************************************************************)
(* C32.  A location component that parses to the zero vector (fewer or     *)
(* more than three pieces, or three pieces that all read as 0) makes       *)
(* ParseLightLine reject the record, unless its text is exactly "(0,0,0)", *)
(* which is accepted as the origin; a component that parses to a vector    *)
(* other than zero is accepted, with that vector (x and y exchanged).      *)
(***************************************************************************)
ReadsAsZero(Component) ==
    \/ Len(PiecesOf(Component)) # 3
    \/ \A i \in 1..3 : Atof(PiecesOf(Component)[i]) = 0

C32_ZeroLocationRejected ==
    Parsed("location") =>
       LET Component == ParsedLine.Component
       IN  /\ (ReadsAsZero(Component) /\ Component # ZeroLocationText) =>
                 ~ParsedLine.bIsValid /\ ParsedLine.log = "locationFailed"
           /\ Component = ZeroLocationText =>
                 ParsedLine.bIsValid /\ ParsedLine.Location = ZeroVector
           /\ ~ReadsAsZero(Component) =>
                 /\ ParsedLine.bIsValid
                 /\ ParsedLine.Location =
                       [X |-> Atof(PiecesOf(Component)[2]),
                        Y |-> Atof(PiecesOf(Component)[1]),
                        Z |-> Atof(PiecesOf(Component)[3])]

\* The record with the location "(0,0,0)" was accepted.
C32_Witness ==
    /\ Parsed("location")
    /\ ParsedLine.Component = ZeroLocationText
    /\ ParsedLine.bIsValid
    /\ ParsedLine.log = "parsed"

\* FCString-free arithmetic of FVector::Rotation() on the vectors of Coords:
\* atan2(y, x) in degrees.
Atan2Degrees(y, x) ==
    CASE y = 0 /\ x >= 0 -> 0
      [] y = 0 /\ x < 0 -> 180
      [] y > 0 /\ x > 0 -> 45
      [] y > 0 /\ x = 0 -> 90
      [] y > 0 /\ x < 0 -> 135
      [] y < 0 /\ x > 0 -> 0 - 45
      [] y < 0 /\ x = 0 -> 0 - 90
      [] OTHER -> 0 - 135

\* atan2(Z, sqrt(X*X + Y*Y)) in degrees, to the nearest degree.
ElevationDegrees(X, Y, Z) ==
    LET Horizontal == (IF X # 0 THEN 1 ELSE 0) + (IF Y # 0 THEN 1 ELSE 0)
        Up == CASE Horizontal = 0 -> 90 [] Horizontal = 1 -> 45 [] OTHER -> 35
    IN  IF Z = 0 THEN 0 ELSE IF Z > 0 THEN Up ELSE 0 - Up

\* The rotation of the normalized direction: Unreal X is the sender's y and
\* Unreal Y the sender's x; yaw from the horizontal components, pitch the
\* elevation, roll 0.
DirectionRotation(DirectionObject) ==
    LET X == DirectionObject.y
        Y == DirectionObject.x
        Z == DirectionObject.z
    IN  FRotator(ElevationDegrees(X, Y, Z), Atan2Degrees(Y, X), 0)

Decoded == ParsedLine.log # "none"

(***************************************************************************)
(* C33.  ParseJsonLight supports both orientation encodings: a light with  *)
(* a "rotation" object gets exactly its pitch, yaw and roll, and a light   *)
(* with only a "direction" object gets the rotation of the normalized      *)
(* direction (roll 0).                                                     *)
(***************************************************************************)
C33_BothEncodingsDecoded ==
    Decoded =>
       LET LightObject == ParsedLine.LightObject
       IN  /\ LightObject.rotation.has =>
                 ParsedLine.Rotation = FRotator(LightObject.rotation.pitch,
                                                LightObject.rotation.yaw,
                                                LightObject.rotation.roll)
           /\ (~LightObject.rotation.has /\ LightObject.direction.has) =>
                 ParsedLine.Rotation = DirectionRotation(LightObject.direction)

(***************************************************************************)
(* C34.  A batch with lightCount = 0 and an empty "lights" array is a      *)
(* valid batch: it decodes, and applying it destroys every light tracked   *)
(* before and leaves the tracked set empty.                                *)
(***************************************************************************)
EmptyBatch(d) ==
    /\ d.wellFormed
    /\ d.hasEvent
    /\ d.hasLightCount /\ d.lightCount = 0
    /\ d.hasLights /\ d.lights = <<>>

C34_EmptyBatchClears ==
    [][(TakesPayload /\ EmptyBatch(TakenText.doc)) =>
         /\ LastLog = "parsed"
         /\ SpawnedLights' = <<>>
         /\ \A l \in Range(SpawnedLights) : l \notin World'
         /\ World' = World \ Range(SpawnedLights)]_vars

\* Two payloads were taken and both decoded; the first was one of the
\* documents with lights, and after the second nothing is tracked or alive.
C34_Witness ==
    /\ Len(procLog) = 2
    /\ procLog[1].log = "parsed"
    /\ procLog[2].log = "parsed"
    /\ procLog[2].conn = 2
    /\ imports = 0
    /\ SpawnedLights = <<>>
    /\ World = {}
    /\ scenePc = "draining"

(***************************************************************************)
(* C35.  The legacy import destroys every light tracked before, and it does*)
(* so before it reads the file: when the file cannot be loaded, or no line *)
(* of it decodes, the import ends with an empty tracked set and the        *)
(* earlier lights gone.                                                    *)
(***************************************************************************)
NothingDecodes(file) == ~file.loadable \/ DecodedLines(file) = {}

C35_ImportClearsFirst ==
    /\ []((SceneIdle /\ imports < MaxImports) =>
            \A file \in {f \in LegacyFiles : NothingDecodes(f)} :
               \A r \in LegacyRefusalChoices(file) :
                  LET st == LoadAndSpawnLightsOf(Scene, file, 0 - (imports + 1), r)
                  IN  /\ st.SpawnedLights = <<>>
                      /\ st.World = World \ Range(SpawnedLights))
    /\ [][imports' # imports =>
            \A l \in Range(SpawnedLights) :
               l \notin World' /\ l \notin Range(SpawnedLights')]_vars

\* After a payload that decoded, an import ended with nothing tracked.
C35_Witness ==
    /\ imports = 1
    /\ Len(procLog) = 2
    /\ procLog[2].log = "parsed"
    /\ IncomingDataQueue = <<>>
    /\ SpawnedLights = <<>>
    /\ World = {}
    /\ scenePc = "idle"

(***************************************************************************)
(* C36.  No connection task touches the syncer after the syncer has ended  *)
(* play: a task whose read loop finishes after EndPlay does not enqueue    *)
(* into IncomingDataQueue.                                                 *)
(***************************************************************************)
C36_NoEnqueueAfterEndPlay ==
    [][ended => \A c \in Conns : ~Enqueues(c)]_vars

(***************************************************************************)
(* C37.  No orphaned lights: every light the syncer created that has not   *)
(* been destroyed is in SpawnedLights, each handle is there once, and      *)
(* SpawnedLights holds nothing the syncer did not create.                  *)
(***************************************************************************)
CreatedByOther(l) == l.src \in {OtherConn, OtherImport}
CreatedByThis(l) == ~CreatedByOther(l)

C37_NoOrphanedLights ==
    /\ \A l \in World : CreatedByThis(l) => l \in Range(SpawnedLights)
    /\ \A i, j \in DOMAIN SpawnedLights :
          SpawnedLights[i] = SpawnedLights[j] => i = j
    /\ \A l \in Range(SpawnedLights) : CreatedByThis(l)

\* After two batches and an import the syncer tracks two lights, and the
\* world holds them and the lights of the second instance.
C37_Witness ==
    /\ Len(procLog) = 2
    /\ imports = 1
    /\ Len(SpawnedLights) = 2
    /\ Other.SpawnedLights # <<>>
    /\ World = Range(SpawnedLights) \cup Range(Other.SpawnedLights)
    /\ \E l \in World : CreatedByOther(l)

(***************************************************************************)
(* C38.  The DirectLink source index is never negative, whatever           *)
(* SetDirectLinkSourceIndex and UpdateDirectLinkConnection calls are made, *)
(* and whenever UpdateDirectLinkConnection opens a connection the index it *)
(* uses is smaller than the number of available sources: an index out of   *)
(* range is reset to 0 first.                                              *)
(***************************************************************************)
OpensConnection == CallUpdateDirectLinkConnection /\ Manager'.OpenIndex # NoOpen

C38_SourceIndexInRange ==
    /\ [](Manager.DirectLinkSourceIndex >= 0)
    /\ [][OpensConnection =>
            /\ Manager'.OpenCount = Manager.Sources
            /\ Manager'.OpenIndex >= 0
            /\ Manager'.OpenIndex < Manager.Sources
            /\ Manager'.OpenIndex = Manager'.DirectLinkSourceIndex
            /\ Manager'.OpenIndex =
                  IF Manager.DirectLinkSourceIndex >= Manager.Sources
                  THEN 0 ELSE Manager.DirectLinkSourceIndex]_vars

\* The last call opened a connection with the second of two sources.
C38_Witness ==
    /\ Manager.call = "UpdateDirectLinkConnection"
    /\ Manager.result
    /\ Manager.OpenIndex = 1
    /\ Manager.OpenCount = 2
    /\ Manager.DirectLinkSourceIndex = 1

(***************************************************************************)
(* C39 (as stated).  The manager creates its Datasmith runtime actor at    *)
(* most once: InitializeDatasmithActor spawns nothing when a valid actor   *)
(* exists, and UpdateDirectLinkConnection never spawns and returns false   *)
(* when the actor is missing.                                              *)
(***************************************************************************)
HoldsActor == Manager.DatasmithRuntimeActorRef = "valid"
Spawns == Manager'.Spawned # Manager.Spawned

====
